---- MODULE Spec2Model ----
(***************************************************************************)
(* A model of @stencil/vitest: the event-spy registry of render(), the     *)
(* event matchers, the HTML serializer, pretty-printer, normalizer and     *)
(* HTML matchers, the class and attribute matchers, waitForChanges, the    *)
(* stencil-test command and the setup of the 'stencil' test environment.   *)
(*                                                                         *)
(* Strings the code inspects character by character (markup, JSON) are     *)
(* sequences of one-character strings.  An optional value (firstEvent,     *)
(* lastEvent) is a sequence of length 0 (undefined) or 1.                  *)
(***************************************************************************)
EXTENDS Integers, Sequences, FiniteSets, TLC

(***************************************************************************)
(* Bounds of the model.                                                    *)
(***************************************************************************)
\* dispatchEvent calls on the rendered root in one behaviour
MaxEvents == 3
\* spyOnEvent calls in one behaviour
MaxCalls == 3
\* characters of a markup string handed to normalizeHtml
MaxLen == 4
\* white-space characters inserted between the tags of a markup string
MaxInsert == 2
\* characters of a class attribute
MaxClassLen == 3
\* class names handed to toMatchClasses
MaxClasses == 2
\* builds Stencil reports as finished in one run of stencil-test
MaxBuilds == 3
\* SIGINT and SIGTERM signals stencil-test handles in one run
MaxSignals == 1
\* test files the environment is set up for in one run
MaxFiles == 3

(***************************************************************************)
(* Inputs.                                                                 *)
(***************************************************************************)
EventNames == {"buttonClick", "valueChange"}

\* Keys and values of event payloads.  A value is one character; CyclicRef
\* stands for a reference of the object to itself.
DetailKeys == {"a", "b"}
DetailValues == {"1", "2"}
CyclicRef == "@"

\* An object is the sequence of its <<key, value>> properties in insertion
\* order, each key at most once.
IsObject(o) == \A i, j \in 1..Len(o) : o[i][1] = o[j][1] => i = j

ObjectsOver(vals) ==
    { o \in UNION { [1..n -> DetailKeys \X vals] : n \in 0..Cardinality(DetailKeys) } :
        IsObject(o) }

\* The payloads the matchers are given as the expected detail.
SerializableDetails == ObjectsOver(DetailValues)
ExpectedDetails == SerializableDetails \cup (ObjectsOver({CyclicRef}) \ { << >> })

\* The payloads the component under test emits.
EmittedDetails ==
    { << <<"a", "1">> >>,
      << <<"a", "1">>, <<"b", "2">> >>,
      << <<"b", "2">>, <<"a", "1">> >> }

Undefined == << >>
Some(x) == << x >>

VARIABLES
    heap,          \* the EventSpy objects created so far, by identity 1..Len(heap)
    eventSpies,    \* the WeakMap's view of this render's container
    listeners,     \* the listeners registered on the rendered root, in order
    attached,      \* whether the container is in the document
    lastCall,      \* the last spyOnEvent call and what it returned (0: undefined)
    ncalls,        \* history: spyOnEvent calls per event name
    firstReturned, \* history: what the first spyOnEvent call of a name returned
    sent,          \* history: per name, the details dispatched since its first call
    ndispatched,   \* history: dispatchEvent calls so far
    received,      \* the value handed to an HTML matcher or to serializeHtml
    outcome        \* what the last HTML operation did

\* stencil-test: the variables of the script, by their names.
VARIABLES
    watch,                 \* args.watch
    stencilProcess,        \* 0: null, 1: the ChildProcess of Stencil
    vitestProcess,         \* 0: null, else the Vitest ChildProcess tracked
    debounceTimer,         \* 0: null, else the id of the timer set last
    buildCount,
    isRunningTests,
    tempStencilConfigPath  \* 0: null, 1: the path of the temporary config

\* stencil-test: the process and what surrounds it.
VARIABLES
    main,            \* where the main routine is: "config", "spawn", "done"
    stencilChild,         \* the Stencil child: "none", "spawning", "running", "gone"
    vitestAlive,     \* the Vitest children spawned and not gone yet, by id
    timers,          \* the ids of the timers pending
    tempFileExists,  \* whether the temporary config file is on disk
    exit,            \* the exit status of stencil-test, Undefined while it runs
    cliLog           \* history of the run (see NoCliLog)

\* The Stencil test environment: the DOM environment global holds ("none"
\* when none is set up) and, per test file so far, what setup was given
\* and did.
VARIABLES globalEnvironment, setups

\* waitForChanges: the animation frames fired since the call, the
\* componentOnReady promise of every component, the promiseChain collected
\* (Undefined before), and the promise returned ("none" before the call).
VARIABLES frames, onReady, promiseChain, changes

spyVars == << heap, eventSpies, listeners, attached, lastCall, ncalls,
              firstReturned, sent, ndispatched >>
htmlVars == << received, outcome >>
cliVars == << watch, stencilProcess, vitestProcess, debounceTimer, buildCount,
             isRunningTests, tempStencilConfigPath, main, stencilChild, vitestAlive,
             timers, tempFileExists, exit, cliLog >>
envVars == << globalEnvironment, setups >>
waitVars == << frames, onReady, promiseChain, changes >>
toolVars == << cliVars, envVars, waitVars >>
notCliVars == << spyVars, htmlVars, envVars, waitVars >>
notEnvVars == << spyVars, htmlVars, cliVars, waitVars >>
notWaitVars == << spyVars, htmlVars, cliVars, envVars >>
vars == << heap, eventSpies, listeners, attached, lastCall, ncalls,
           firstReturned, sent, ndispatched, received, outcome, toolVars >>

(***************************************************************************)
(* render(): the event spies.                                              *)
(***************************************************************************)
\* const spy: EventSpy = { eventName, events: [], ... length: 0 }
NewSpy(eventName) ==
    [ eventName |-> eventName, events |-> << >>,
      firstEvent |-> Undefined, lastEvent |-> Undefined, length |-> 0 ]

\* CustomEvent: what the matchers read of it.
CustomEvent(type, detail) == [ type |-> type, detail |-> detail ]

\* seen: history, the dispatches of that name logged when the call was made.
NoCall == [ name |-> "", result |-> 0, seen |-> 0 ]

\* Array.prototype.find over the container's spies: the first spy of that
\* name, 0 (undefined) when there is none.
FindSpy(ids, eventName) ==
    LET hits == { i \in 1..Len(ids) : heap[ids[i]].eventName = eventName }
    IN  IF hits = {} THEN 0
        ELSE ids[CHOOSE i \in hits : \A j \in hits : i <= j]

\* history: spyOnEvent calls so far
TotalCalls == ncalls["buttonClick"] + ncalls["valueChange"]

FirstReturn(eventName, result) ==
    IF ncalls[eventName] = 0
    THEN [firstReturned EXCEPT ![eventName] = result]
    ELSE firstReturned

spyOnEventAlwaysNew(eventName) ==
    /\ TotalCalls < MaxCalls
    /\ heap' = Append(heap, NewSpy(eventName))
    /\ listeners' = Append(listeners, [ type |-> eventName, spy |-> Len(heap) + 1 ])
    /\ eventSpies' = [ has |-> TRUE, spies |-> Append(eventSpies.spies, Len(heap) + 1) ]
    /\ lastCall' = [ name |-> eventName, result |-> Len(heap) + 1,
                     seen |-> Len(sent[eventName]) ]
    /\ firstReturned' = FirstReturn(eventName, Len(heap) + 1)
    /\ ncalls' = [ncalls EXCEPT ![eventName] = @ + 1]
    /\ UNCHANGED << attached, sent, ndispatched >>

\* const spyOnEvent = (eventName) => { ... }
spyOnEvent(eventName) ==
    /\ TotalCalls < MaxCalls
    /\ IF eventSpies.has
       THEN \* return eventSpies.get(container)!.find(...)!
            LET found == FindSpy(eventSpies.spies, eventName)
            IN  /\ lastCall' = [ name |-> eventName, result |-> found,
                                 seen |-> Len(sent[eventName]) ]
                /\ firstReturned' = FirstReturn(eventName, found)
                /\ UNCHANGED << heap, listeners, eventSpies >>
       ELSE LET id == Len(heap) + 1
            IN  /\ heap' = Append(heap, NewSpy(eventName))
                /\ listeners' = Append(listeners, [ type |-> eventName, spy |-> id ])
                /\ eventSpies' = [ has |-> TRUE, spies |-> Append(eventSpies.spies, id) ]
                /\ lastCall' = [ name |-> eventName, result |-> id,
                                 seen |-> Len(sent[eventName]) ]
                /\ firstReturned' = FirstReturn(eventName, id)
    /\ ncalls' = [ncalls EXCEPT ![eventName] = @ + 1]
    /\ UNCHANGED << attached, sent, ndispatched >>

listenerSetsFirstAlways(spy, customEvent) ==
    LET events == Append(spy.events, customEvent)
    IN  [ spy EXCEPT !.events = events, !.length = Len(events),
                     !.lastEvent = Some(customEvent),
                     !.firstEvent = Some(customEvent) ]

listenerUnshift(spy, customEvent) ==
    LET events == << customEvent >> \o spy.events
        once == [ spy EXCEPT !.events = events, !.length = Len(events),
                             !.lastEvent = Some(customEvent) ]
    IN  IF once.length = 1 THEN [ once EXCEPT !.firstEvent = Some(customEvent) ]
        ELSE once

\* const listener = (event) => { spy.events.push(...); ... }: the spy after it.
listener(spy, customEvent) ==
    LET events == Append(spy.events, customEvent)
        once == [ spy EXCEPT !.events = events, !.length = Len(events),
                             !.lastEvent = Some(customEvent) ]
    IN  IF once.length = 1 THEN [ once EXCEPT !.firstEvent = Some(customEvent) ]
        ELSE once

\* The heap after the listeners listeners[i..] of the event's type have run.
RECURSIVE RunListeners(_, _, _)
RunListeners(h, i, customEvent) ==
    IF i > Len(listeners) THEN h
    ELSE IF listeners[i].type = customEvent.type
         THEN RunListeners([h EXCEPT ![listeners[i].spy] = listener(@, customEvent)],
                           i + 1, customEvent)
         ELSE RunListeners(h, i + 1, customEvent)

\* root.dispatchEvent(new CustomEvent(type, { detail })): the listeners of
\* the root run whether or not the root is still in the document.
dispatchEvent(type, detail) ==
    /\ ndispatched < MaxEvents
    /\ ndispatched' = ndispatched + 1
    /\ heap' = RunListeners(heap, 1, CustomEvent(type, detail))
    /\ sent' = IF ncalls[type] > 0 THEN [sent EXCEPT ![type] = Append(@, detail)]
               ELSE sent
    /\ UNCHANGED << eventSpies, listeners, attached, lastCall, ncalls, firstReturned >>

\* const unmount = () => { container.remove(); }
unmount ==
    /\ attached' = FALSE
    /\ UNCHANGED << heap, eventSpies, listeners, lastCall, ncalls, firstReturned,
                    sent, ndispatched >>

(***************************************************************************)
(* The event matchers.  A matcher's result is what it returned (pass) or   *)
(* that it threw.                                                          *)
(***************************************************************************)
Returned(pass) == [ threw |-> FALSE, pass |-> pass ]
Threw == [ threw |-> TRUE, pass |-> FALSE ]

\* function toHaveReceivedEvent(received)
toHaveReceivedEvent(spy) == Returned(spy.length > 0)

toHaveReceivedEventTimesAtLeast(spy, count) == Returned(spy.length >= count)

\* function toHaveReceivedEventTimes(received, count)
toHaveReceivedEventTimes(spy, count) == Returned(spy.length = count)

\* Whether JSON.stringify returns for the object (it throws on a cycle).
Stringifiable(o) == \A i \in 1..Len(o) : o[i][2] # CyclicRef

\* JSON.stringify of an object: {"a":1,"b":2}, the properties in insertion
\* order.
RECURSIVE StringifyProps(_, _)
StringifyProps(o, i) ==
    IF i > Len(o) THEN << >>
    ELSE (IF i > 1 THEN << "," >> ELSE << >>)
         \o << "\"", o[i][1], "\"", ":", o[i][2] >>
         \o StringifyProps(o, i + 1)

JSONstringify(o) == << "{" >> \o StringifyProps(o, 1) \o << "}" >>

\* Object.keys(o) and o[key] ("undefined" for a key the object lacks).
Keys(o) == [ i \in 1..Len(o) |-> o[i][1] ]
Get(o, key) ==
    IF \E i \in 1..Len(o) : o[i][1] = key
    THEN o[CHOOSE i \in 1..Len(o) : o[i][1] = key][2]
    ELSE "undefined"

\* a[key] === b[key]: a reference of an object to itself is identical only
\* to itself, and the two payloads are distinct objects.
StrictEquals(va, vb) == va = vb /\ va # CyclicRef

\* function safeEquals(a, b)
safeEquals(a, b) ==
    IF Stringifiable(a) /\ Stringifiable(b)
    THEN JSONstringify(a) = JSONstringify(b)
    ELSE IF Len(Keys(a)) # Len(Keys(b)) THEN FALSE
         ELSE \A i \in 1..Len(Keys(a)) :
                  StrictEquals(Get(a, Keys(a)[i]), Get(b, Keys(a)[i]))

\* received.lastEvent!.detail and the like: reading .detail of undefined throws.
DetailMatch(optEvent, detail) ==
    IF optEvent = Undefined THEN Threw
    ELSE Returned(safeEquals(optEvent[1].detail, detail))

\* function toHaveReceivedEventDetail(received, detail)
toHaveReceivedEventDetail(spy, detail) ==
    IF spy.length = 0 THEN Returned(FALSE)
    ELSE DetailMatch(spy.lastEvent, detail)

\* function toHaveFirstReceivedEventDetail(received, detail)
toHaveFirstReceivedEventDetail(spy, detail) ==
    IF spy.length = 0 THEN Returned(FALSE)
    ELSE DetailMatch(spy.firstEvent, detail)

\* function toHaveLastReceivedEventDetail(received, detail)
toHaveLastReceivedEventDetail(spy, detail) == toHaveReceivedEventDetail(spy, detail)

\* received.events[index] for a 0-based index: undefined outside the array.
At(events, index) ==
    IF index >= 0 /\ index < Len(events) THEN Some(events[index + 1]) ELSE Undefined

toHaveNthReceivedEventDetailOneBased(spy, index, detail) ==
    IF spy.length = 0 THEN Returned(FALSE)
    ELSE IF index < 1 \/ index > spy.length THEN Returned(FALSE)
    ELSE DetailMatch(At(spy.events, index - 1), detail)

\* function toHaveNthReceivedEventDetail(received, index, detail)
toHaveNthReceivedEventDetail(spy, index, detail) ==
    IF spy.length = 0 THEN Returned(FALSE)
    ELSE IF index < 0 \/ index >= spy.length THEN Returned(FALSE)
    ELSE DetailMatch(At(spy.events, index), detail)

(***************************************************************************)
(* Strings as sequences of characters.                                     *)
(***************************************************************************)
Chars(str) == [ i \in 1..Len(str) |-> SubSeq(str, i, i) ]

\* The characters \s matches that the inputs of the model contain.
WhiteSpace == { " ", "\t", "\n" }
IsSpace(c) == c \in WhiteSpace

UpperCase == Chars("ABCDEFGHIJKLMNOPQRSTUVWXYZ")
LowerCase == Chars("abcdefghijklmnopqrstuvwxyz")

\* String.prototype.toUpperCase
toUpperCase(s) ==
    [ i \in 1..Len(s) |->
        IF \E k \in 1..Len(LowerCase) : LowerCase[k] = s[i]
        THEN UpperCase[CHOOSE k \in 1..Len(LowerCase) : LowerCase[k] = s[i]]
        ELSE s[i] ]

\* String.prototype.toLowerCase
toLowerCase(s) ==
    [ i \in 1..Len(s) |->
        IF \E k \in 1..Len(UpperCase) : UpperCase[k] = s[i]
        THEN LowerCase[CHOOSE k \in 1..Len(UpperCase) : UpperCase[k] = s[i]]
        ELSE s[i] ]

\* The first index from i on that holds no white space (Len(s) + 1: none).
SkipSpace(s, i) ==
    CHOOSE j \in i..(Len(s) + 1) :
        /\ j = Len(s) + 1 \/ ~IsSpace(s[j])
        /\ \A k \in i..(j - 1) : IsSpace(s[k])

\* The first index from i on that holds c (Len(s) + 1: none).
IndexOf(s, c, i) ==
    CHOOSE j \in i..(Len(s) + 1) :
        /\ j = Len(s) + 1 \/ s[j] = c
        /\ \A k \in i..(j - 1) : s[k] # c

\* String.prototype.trim
trim(s) ==
    LET first == SkipSpace(s, 1)
        last == IF first > Len(s) THEN 0
                ELSE CHOOSE j \in first..Len(s) :
                         ~IsSpace(s[j]) /\ \A k \in (j + 1)..Len(s) : IsSpace(s[k])
    IN  SubSeq(s, first, last)

StartsWith(s, prefix) ==
    Len(prefix) <= Len(s) /\ SubSeq(s, 1, Len(prefix)) = prefix
EndsWith(s, suffix) ==
    Len(suffix) <= Len(s) /\ SubSeq(s, Len(s) - Len(suffix) + 1, Len(s)) = suffix

\* s.replace(/\s+/g, ' ') on s[lo..hi]: a white-space character that starts
\* a run becomes one space, the others of the run go.
RECURSIVE CollapseRange(_, _, _)
CollapseRange(s, lo, hi) ==
    IF lo > hi THEN << >>
    ELSE IF lo = hi
    THEN IF ~IsSpace(s[lo]) THEN << s[lo] >>
         ELSE IF lo > 1 /\ IsSpace(s[lo - 1]) THEN << >>
         ELSE << " " >>
    ELSE LET mid == (lo + hi) \div 2
         IN  CollapseRange(s, lo, mid) \o CollapseRange(s, mid + 1, hi)

CollapseWhiteSpace(s) == CollapseRange(s, 1, Len(s))

\* Whether s[i] is white space of a run that follows a '>' and precedes a '<'.
InTagGap(s, i) ==
    /\ IsSpace(s[i])
    /\ LET before == CHOOSE j \in 0..i :
                         /\ j = 0 \/ ~IsSpace(s[j])
                         /\ \A k \in (j + 1)..i : IsSpace(s[k])
           after == SkipSpace(s, i)
       IN  /\ before >= 1 /\ s[before] = ">"
           /\ after <= Len(s) /\ s[after] = "<"

\* s.replace(/>\s*</g, '><') and s.replace(/>\s+</g, '><') on s[lo..hi]:
\* both drop the white space between a '>' and the next '<' and nothing else
\* (a match ends at a '<', so no two matches overlap).
RECURSIVE ReplaceTagGapsRange(_, _, _)
ReplaceTagGapsRange(s, lo, hi) ==
    IF lo > hi THEN << >>
    ELSE IF lo = hi
    THEN IF InTagGap(s, lo) THEN << >> ELSE << s[lo] >>
    ELSE LET mid == (lo + hi) \div 2
         IN  ReplaceTagGapsRange(s, lo, mid) \o ReplaceTagGapsRange(s, mid + 1, hi)

ReplaceTagGaps(s) == ReplaceTagGapsRange(s, 1, Len(s))

normalizeHtmlSliceTrim(html) ==
    LET collapsed == ReplaceTagGaps(CollapseWhiteSpace(html))
    IN  SubSeq(collapsed, 2, Len(collapsed) - 1)

normalizeHtmlNoGaps(html) == trim(CollapseWhiteSpace(html))

\* export function normalizeHtml(html)
normalizeHtml(html) == trim(ReplaceTagGaps(CollapseWhiteSpace(html)))

(***************************************************************************)
(* prettifyHtml.                                                           *)
(***************************************************************************)
indentSize == 2

\* Whether /<[^>]+>/ matches at i.
TagAt(s, i) ==
    /\ s[i] = "<"
    /\ i + 1 <= Len(s)
    /\ s[i + 1] # ">"
    /\ IndexOf(s, ">", i + 1) <= Len(s)

\* The first index from i on where /<[^>]+>/ matches (Len(s) + 1: none).
NextTag(s, i) ==
    LET hits == { j \in i..Len(s) : TagAt(s, j) }
    IN  IF hits = {} THEN Len(s) + 1
        ELSE CHOOSE j \in hits : \A h \in hits : j <= h

\* html.split(/(<[^>]+>)/) from index start on: text, tag, text, ..., text.
RECURSIVE SplitTags(_, _)
SplitTags(s, start) ==
    LET open == NextTag(s, start)
    IN  IF open > Len(s) THEN << SubSeq(s, start, Len(s)) >>
        ELSE LET close == IndexOf(s, ">", open + 1)
             IN  << SubSeq(s, start, open - 1), SubSeq(s, open, close) >>
                 \o SplitTags(s, close + 1)

\* Whether /<\/([^>\s]+)/ matches at i.
ClosingNameAt(part, i) ==
    /\ i + 2 <= Len(part)
    /\ part[i] = "<" /\ part[i + 1] = "/"
    /\ part[i + 2] # ">" /\ ~IsSpace(part[i + 2])

\* part.match(/<\/([^>\s]+)/)?.[1]: the name, << >> when there is no match.
ClosingTagName(part) ==
    LET hits == { i \in 1..Len(part) : ClosingNameAt(part, i) }
    IN  IF hits = {} THEN << >>
        ELSE LET i == CHOOSE h \in hits : \A g \in hits : h <= g
                 end == CHOOSE j \in (i + 2)..Len(part) :
                            /\ \A k \in (i + 2)..j : part[k] # ">" /\ ~IsSpace(part[k])
                            /\ j = Len(part) \/ part[j + 1] = ">" \/ IsSpace(part[j + 1])
             IN  SubSeq(part, i + 2, end)

\* new RegExp(`^\\s*<${tagName}[^>]*>$`).test(lastLine), for a tag name that
\* holds no regular-expression operator (the code escapes ':' only).
OpenTagPatternTest(tagName, lastLine) ==
    LET open == SkipSpace(lastLine, 1)
        rest == open + Len(tagName) + 1
    IN  /\ open <= Len(lastLine)
        /\ lastLine[open] = "<"
        /\ rest <= Len(lastLine)
        /\ SubSeq(lastLine, open + 1, open + Len(tagName)) = tagName
        /\ lastLine[Len(lastLine)] = ">"
        /\ \A k \in rest..(Len(lastLine) - 1) : lastLine[k] # ">"

\* ' '.repeat(n)
Spaces(n) == [ k \in 1..n |-> " " ]

Max(a, b) == IF a >= b THEN a ELSE b

\* The for loop of prettifyHtml from parts[i] on: the lines at its end.
RECURSIVE PrettifyParts(_, _, _, _)
PrettifyParts(parts, i, indentLevel, lines) ==
    IF i > Len(parts) THEN lines
    ELSE
    LET part == trim(parts[i])
    IN  IF part = << >> THEN PrettifyParts(parts, i + 1, indentLevel, lines)
        ELSE IF StartsWith(part, << "<" >>)
        THEN IF StartsWith(part, << "<", "/" >>)
             THEN LET level == Max(0, indentLevel - 1)
                      tagName == ClosingTagName(part)
                  IN  IF /\ Len(lines) > 0
                         /\ lines[Len(lines)] # << >>
                         /\ tagName # << >>
                         /\ OpenTagPatternTest(tagName, lines[Len(lines)])
                      THEN PrettifyParts(parts, i + 1, level,
                               [lines EXCEPT ![Len(lines)] = @ \o part])
                      ELSE PrettifyParts(parts, i + 1, level,
                               Append(lines, Spaces(level * indentSize) \o part))
             ELSE IF EndsWith(part, << "/", ">" >>)
             THEN PrettifyParts(parts, i + 1, indentLevel,
                      Append(lines, Spaces(indentLevel * indentSize) \o part))
             ELSE PrettifyParts(parts, i + 1, indentLevel + 1,
                      Append(lines, Spaces(indentLevel * indentSize) \o part))
        ELSE PrettifyParts(parts, i + 1, indentLevel,
                 Append(lines, Spaces(indentLevel * indentSize) \o part))

\* lines.join('\n')
RECURSIVE JoinLines(_, _)
JoinLines(lines, i) ==
    IF i > Len(lines) THEN << >>
    ELSE (IF i > 1 THEN << "\n" >> ELSE << >>) \o lines[i] \o JoinLines(lines, i + 1)

\* The lines prettifyHtml builds.
PrettyLines(html) ==
    LET normal == trim(ReplaceTagGaps(CollapseWhiteSpace(html)))
    IN  PrettifyParts(SplitTags(normal, 1), 1, 0, << >>)

\* export function prettifyHtml(html)
prettifyHtml(html) == JoinLines(PrettyLines(html), 1)

(***************************************************************************)
(* The nodes the serializer reads.  A field a node may lack is a sequence  *)
(* of length 0 (absent) or 1; a string field that is absent or empty is    *)
(* << >>.                                                                  *)
(***************************************************************************)
ElementNode(localName, tagName, attributes, shadowRoot, hidden, childNodes) ==
    [ nodeType |-> 1, localName |-> localName, tagName |-> tagName,
      attributes |-> attributes, shadowRoot |-> shadowRoot,
      hiddenChildNodes |-> hidden, childNodes |-> childNodes,
      textContent |-> << >>, delegatesFocus |-> FALSE ]

TextNode(text) ==
    [ nodeType |-> 3, localName |-> << >>, tagName |-> Undefined,
      attributes |-> Undefined, shadowRoot |-> Undefined,
      hiddenChildNodes |-> Undefined, childNodes |-> Some(<< >>),
      textContent |-> text, delegatesFocus |-> FALSE ]

CommentNode(text) == [ TextNode(text) EXCEPT !.nodeType = 8 ]

\* A DocumentFragment or a ShadowRoot.
FragmentNode(childNodes, delegatesFocus) ==
    [ nodeType |-> 11, localName |-> << >>, tagName |-> Undefined,
      attributes |-> Undefined, shadowRoot |-> Undefined,
      hiddenChildNodes |-> Undefined, childNodes |-> childNodes,
      textContent |-> << >>, delegatesFocus |-> delegatesFocus ]

\* An HTML element as the three DOM back-ends give it: localName in lower
\* case, tagName in upper case.
HtmlElement(name, attributes, shadowRoot, childNodes) ==
    ElementNode(Chars(name), Some(toUpperCase(Chars(name))), Some(attributes), shadowRoot,
                Undefined, Some(childNodes))

Attr(name, value) ==
    [ name |-> Chars(name), prefix |-> << >>, localName |-> Chars(name),
      value |-> Chars(value) ]

(***************************************************************************)
(* serializeHtml.  A result is the markup built, or that the call threw.   *)
(***************************************************************************)
NoVoidElements == { }

VOID_ELEMENTS ==
    { Chars("area"), Chars("base"), Chars("br"), Chars("col"), Chars("embed"),
      Chars("hr"), Chars("img"), Chars("input"), Chars("link"), Chars("meta"),
      Chars("param"), Chars("source"), Chars("track"), Chars("wbr") }

Html(html) == [ threw |-> FALSE, html |-> html ]
ThrewHtml == [ threw |-> TRUE, html |-> << >> ]
Then(a, b) ==
    IF a.threw \/ b.threw THEN ThrewHtml ELSE Html(a.html \o b.html)

\* The attributes of the opening tag, from attributes[i] on.
RECURSIVE AttributesHtml(_, _)
AttributesHtml(attributes, i) ==
    IF i > Len(attributes) THEN << >>
    ELSE LET attr == attributes[i]
             attrName == IF attr.prefix # << >> /\ attr.localName # << >>
                         THEN attr.prefix \o << ":" >> \o attr.localName
                         ELSE attr.name
         IN  (IF attr.value = << >>
              THEN << " " >> \o attrName
              ELSE << " " >> \o attrName \o << "=", "\"" >> \o attr.value \o << "\"" >>)
             \o AttributesHtml(attributes, i + 1)

\* childElem.tagName.toLowerCase() === 'style', or that reading it threw.
IsStyleTag(child) ==
    IF child.tagName = Undefined THEN ThrewHtml
    ELSE IF toLowerCase(child.tagName[1]) = Chars("style") THEN Html(<< "y" >>)
    ELSE Html(<< >>)

RECURSIVE serializeElementWithShadow(_, _, _)
RECURSIVE ChildrenHtml(_, _, _, _, _)

\* One of the three loops over child nodes, from children[i] on; the loop
\* over the children of a shadow root (inShadow) skips style elements.
ChildrenHtml(children, i, excludeStyles, serializeShadowRoot, inShadow) ==
    IF i > Len(children) THEN Html(<< >>)
    ELSE
    LET child == children[i]
        rest == ChildrenHtml(children, i + 1, excludeStyles, serializeShadowRoot, inShadow)
    IN  IF child.nodeType = 1
        THEN IF inShadow /\ excludeStyles
             THEN LET style == IsStyleTag(child)
                  IN  IF style.threw THEN ThrewHtml
                      ELSE IF style.html # << >> THEN rest
                      ELSE Then(serializeElementWithShadow(child, excludeStyles,
                                                           serializeShadowRoot), rest)
             ELSE Then(serializeElementWithShadow(child, excludeStyles,
                                                  serializeShadowRoot), rest)
        ELSE IF child.nodeType = 3
        THEN Then(Html(child.textContent), rest)
        ELSE IF child.nodeType = 8 /\ child.textContent # << >>
        THEN Then(Html(Chars("<!--") \o child.textContent \o Chars("-->")), rest)
        ELSE rest

\* Array.from(x.childNodes) and the loop over it.
ChildNodesHtml(childNodes, excludeStyles, serializeShadowRoot, inShadow) ==
    IF childNodes = Undefined THEN ThrewHtml
    ELSE ChildrenHtml(childNodes[1], 1, excludeStyles, serializeShadowRoot, inShadow)

\* function serializeElementWithShadow(element, excludeStyles, serializeShadowRoot)
serializeElementWithShadow(element, excludeStyles, serializeShadowRoot) ==
    IF element.nodeType = 11
    THEN ChildNodesHtml(element.childNodes, excludeStyles, serializeShadowRoot, FALSE)
    ELSE
    IF element.localName = << >> /\ element.tagName = Undefined THEN ThrewHtml
    ELSE
    LET tagName == IF element.localName # << >> THEN element.localName
                   ELSE toLowerCase(element.tagName[1])
        open == << "<" >> \o tagName
                \o (IF element.attributes # Undefined
                    THEN AttributesHtml(element.attributes[1], 1) ELSE << >>)
                \o << ">" >>
        hasShadowRoot == serializeShadowRoot /\ element.shadowRoot # Undefined
        hasStencilPolyfill == serializeShadowRoot /\ element.hiddenChildNodes # Undefined
        shadow ==
            IF hasShadowRoot
            THEN LET shadowRoot == element.shadowRoot[1]
                 IN  Then(Html(Chars("<mock:shadow-root")
                               \o (IF shadowRoot.delegatesFocus
                                   THEN Chars(" shadowrootdelegatesfocus") ELSE << >>)
                               \o << ">" >>),
                          Then(ChildNodesHtml(shadowRoot.childNodes, excludeStyles,
                                              serializeShadowRoot, TRUE),
                               Html(Chars("</mock:shadow-root>"))))
            ELSE Html(<< >>)
        childNodes == IF hasStencilPolyfill THEN element.hiddenChildNodes
                      ELSE element.childNodes
        light == ChildNodesHtml(childNodes, excludeStyles, serializeShadowRoot, FALSE)
        close == IF tagName \notin VOID_ELEMENTS
                 THEN << "<", "/" >> \o tagName \o << ">" >> ELSE << >>
    IN  Then(Html(open), Then(shadow, Then(light, Html(close))))

\* An option of SerializeOptions: "unset" (undefined: the default applies),
\* "true" or "false".
OptionValues == { "unset", "true", "false" }
OptionAlwaysDefault(value, default) == default
Option(value, default) == IF value = "unset" THEN default ELSE value = "true"

SerializeOptions ==
    [ serializeShadowRoot : OptionValues, pretty : OptionValues,
      excludeStyles : OptionValues ]

\* A JavaScript value handed to serializeHtml or to an HTML matcher: null,
\* undefined, a string (str), a number, or an object (node: what the code
\* reads of it); hasThen: its then property is a function.
NullValue == [ kind |-> "null", hasThen |-> FALSE, str |-> << >>, node |-> Undefined ]
UndefinedValue == [ NullValue EXCEPT !.kind = "undefined" ]
NumberValue == [ NullValue EXCEPT !.kind = "number" ]
StringValue(str) == [ NullValue EXCEPT !.kind = "string", !.str = str ]
ObjectValue(node) == [ NullValue EXCEPT !.kind = "object", !.node = Some(node) ]
\* An object that is no node: it has none of the fields the code reads.
PlainObject == [ TextNode(<< >>) EXCEPT !.nodeType = 0, !.childNodes = Undefined ]
Thenable(value) == [ value EXCEPT !.hasThen = TRUE ]

\* input as HTMLElement: reading a field of null or undefined throws, a
\* number has none of the fields.
AsNode(input) == IF input.kind = "object" THEN input.node[1] ELSE PlainObject

serializeHtmlShadowAlways(input, options) ==
    IF input.kind = "string" THEN Html(input.str)
    ELSE IF input.kind \in { "null", "undefined" } THEN ThrewHtml
    ELSE
    LET html == serializeElementWithShadow(AsNode(input),
                    Option(options.excludeStyles, TRUE), TRUE)
    IN  IF html.threw THEN ThrewHtml
        ELSE IF Option(options.pretty, TRUE) THEN Html(prettifyHtml(html.html))
        ELSE html

serializeHtmlPublicOnly(input, options) ==
    IF input.kind = "string" THEN Html(input.str)
    ELSE IF input.kind \in { "null", "undefined" } THEN ThrewHtml
    ELSE
    LET html == serializeElementWithShadow(
                    [ AsNode(input) EXCEPT !.hiddenChildNodes = Undefined ],
                    Option(options.excludeStyles, TRUE),
                    Option(options.serializeShadowRoot, TRUE))
    IN  IF html.threw THEN ThrewHtml
        ELSE IF Option(options.pretty, TRUE) THEN Html(prettifyHtml(html.html))
        ELSE html

serializeHtmlNeverPretty(input, options) ==
    IF input.kind = "string" THEN Html(input.str)
    ELSE IF input.kind \in { "null", "undefined" } THEN ThrewHtml
    ELSE serializeElementWithShadow(AsNode(input), Option(options.excludeStyles, TRUE),
                                    Option(options.serializeShadowRoot, TRUE))

\* export function serializeHtml(input, options = {})
serializeHtml(input, options) ==
    IF input.kind = "string" THEN Html(input.str)
    ELSE IF input.kind \in { "null", "undefined" } THEN ThrewHtml
    ELSE
    LET html == serializeElementWithShadow(AsNode(input),
                    Option(options.excludeStyles, TRUE),
                    Option(options.serializeShadowRoot, TRUE))
    IN  IF html.threw THEN ThrewHtml
        ELSE IF Option(options.pretty, TRUE) THEN Html(prettifyHtml(html.html))
        ELSE html

(***************************************************************************)
(* toEqualHtml and toEqualLightHtml.                                       *)
(***************************************************************************)
NoOptions == [ serializeShadowRoot |-> "unset", pretty |-> "unset",
               excludeStyles |-> "unset" ]

\* What an operation did: it threw (error: the class of the error) or it
\* returned (pass: a matcher's verdict; html: the markup it built).
NoOutcome ==
    [ op |-> "none", options |-> NoOptions, expected |-> << >>, kind |-> "none",
      error |-> "", pass |-> FALSE, html |-> << >>, mismatches |-> << >> ]
Throws(op, error) == [ NoOutcome EXCEPT !.op = op, !.kind = "threw", !.error = error ]

\* parseHtmlFragment(html) and the fragment's innerHTML: the parser is the
\* DOM environment's; for the well-formed markup the model hands in, its
\* innerHTML is the markup the string holds.
ParsedInnerHtml(html) == trim(html)

\* The body the two matchers share; withShadow is the serializeShadowRoot
\* option each passes.
EqualHtmlMatcher(op, value, expected, withShadow) ==
    IF value.kind \in { "null", "undefined" } THEN Throws(op, "Error")
    ELSE IF value.hasThen THEN Throws(op, "TypeError")
    ELSE
    LET options == [ NoOptions EXCEPT !.serializeShadowRoot = withShadow ]
        receivedHtml ==
            IF value.kind = "string" THEN Html(ParsedInnerHtml(value.str))
            ELSE IF AsNode(value).nodeType \in { 1, 11 } THEN serializeHtml(value, options)
            ELSE ThrewHtml
    IN  IF receivedHtml.threw THEN Throws(op, "TypeError")
        ELSE [ NoOutcome EXCEPT
                 !.op = op, !.kind = "returned", !.expected = expected,
                 !.html = normalizeHtml(receivedHtml.html),
                 !.pass = (normalizeHtml(receivedHtml.html)
                             = normalizeHtml(trim(expected))) ]

toEqualHtmlNoThenCheck(value, expected) ==
    EqualHtmlMatcher("toEqualHtml", [ value EXCEPT !.hasThen = FALSE ], expected, "true")

\* function toEqualHtml(received, expected)
toEqualHtml(value, expected) == EqualHtmlMatcher("toEqualHtml", value, expected, "true")

toEqualLightHtmlWithShadow(value, expected) ==
    EqualHtmlMatcher("toEqualLightHtml", value, expected, "true")

\* function toEqualLightHtml(received, expected)
toEqualLightHtml(value, expected) ==
    EqualHtmlMatcher("toEqualLightHtml", value, expected, "false")

(***************************************************************************)
(* stencil-test, the command-line wrapper: it spawns Stencil, reads its    *)
(* output and spawns Vitest after a debounce.  A handler runs as one step. *)
(* A child process that was sent a signal by kill() stays alive until its  *)
(* 'exit' event; the handlers registered on it stay registered.            *)
(***************************************************************************)
\* A chunk of Stencil's stdout is what the code reads of it: finished for
\* output.includes('build finished') or 'rebuild finished', error for
\* output.toLowerCase().includes('[ error ]').  A child process ends with
\* code 0 ("code0"), with another code ("code1": 1) or by a signal
\* ("signal": code null).

\* history: Vitest processes spawned; whether the build under way has
\* written an error so far; whether the build that set the timer last had,
\* and whether one that started a test run had; how Stencil and the last
\* Vitest ended; signals handled; timers set while none was pending and
\* while one was; reports of a finished build that held no error.
NoCliLog ==
    [ spawned |-> 0, errored |-> FALSE, timerErrored |-> FALSE, runErrored |-> FALSE,
      stencilEnd |-> "none", vitestEnd |-> "none", signals |-> 0, bursts |-> 0,
      replaced |-> 0, clean |-> 0 ]

\* function runTests(): what it does to the script's variables and to the
\* children.  vitestProcess.kill() sends a signal and leaves the child alive.
runTests ==
    IF ~watch /\ isRunningTests
    THEN UNCHANGED << vitestProcess, isRunningTests, vitestAlive, cliLog >>
    ELSE /\ isRunningTests' = TRUE
         /\ vitestProcess' = cliLog.spawned + 1
         /\ vitestAlive' = vitestAlive \cup { cliLog.spawned + 1 }
         /\ cliLog' = [ cliLog EXCEPT !.spawned = @ + 1,
                                      !.runErrored = @ \/ cliLog.timerErrored ]

handleStencilOutputUnguarded(output) ==
    IF ~output.finished
    THEN /\ cliLog' = [ cliLog EXCEPT !.errored = @ \/ output.error ]
         /\ UNCHANGED << buildCount, debounceTimer, timers >>
    ELSE /\ buildCount' = buildCount + 1
         /\ IF output.error
            THEN /\ cliLog' = [ cliLog EXCEPT !.errored = FALSE ]
                 /\ UNCHANGED << debounceTimer, timers >>
            ELSE /\ timers' = (timers \ { debounceTimer }) \cup { buildCount + 1 }
                 /\ debounceTimer' = buildCount + 1
                 /\ cliLog' = [ cliLog EXCEPT !.errored = FALSE,
                                  !.timerErrored = cliLog.errored,
                                  !.bursts = @ + (IF timers = {} THEN 1 ELSE 0),
                                  !.replaced = @ + (IF timers = {} THEN 0 ELSE 1),
                                  !.clean = @ + 1 ]

handleStencilOutputNoClear(output) ==
    IF ~output.finished
    THEN /\ cliLog' = [ cliLog EXCEPT !.errored = @ \/ output.error ]
         /\ UNCHANGED << buildCount, debounceTimer, timers >>
    ELSE /\ buildCount' = buildCount + 1
         /\ IF output.error \/ vitestProcess # 0
            THEN /\ cliLog' = [ cliLog EXCEPT !.errored = FALSE,
                                  !.clean = @ + (IF output.error THEN 0 ELSE 1) ]
                 /\ UNCHANGED << debounceTimer, timers >>
            ELSE /\ timers' = timers \cup { buildCount + 1 }
                 /\ debounceTimer' = buildCount + 1
                 /\ cliLog' = [ cliLog EXCEPT !.errored = FALSE,
                                  !.timerErrored = cliLog.errored,
                                  !.bursts = @ + (IF timers = {} THEN 1 ELSE 0),
                                  !.replaced = @ + (IF timers = {} THEN 0 ELSE 1),
                                  !.clean = @ + 1 ]

\* function handleStencilOutput(data).  The timer set is named by the
\* number of the build; clearTimeout of a timer that has fired does nothing.
handleStencilOutput(output) ==
    IF ~output.finished
    THEN /\ cliLog' = [ cliLog EXCEPT !.errored = @ \/ output.error ]
         /\ UNCHANGED << buildCount, debounceTimer, timers >>
    ELSE /\ buildCount' = buildCount + 1
         /\ IF output.error \/ vitestProcess # 0
            THEN /\ cliLog' = [ cliLog EXCEPT !.errored = FALSE,
                                  !.clean = @ + (IF output.error THEN 0 ELSE 1) ]
                 /\ UNCHANGED << debounceTimer, timers >>
            ELSE /\ timers' = (timers \ { debounceTimer }) \cup { buildCount + 1 }
                 /\ debounceTimer' = buildCount + 1
                 /\ cliLog' = [ cliLog EXCEPT !.errored = FALSE,
                                  !.timerErrored = cliLog.errored,
                                  !.bursts = @ + (IF timers = {} THEN 1 ELSE 0),
                                  !.replaced = @ + (IF timers = {} THEN 0 ELSE 1),
                                  !.clean = @ + 1 ]

\* function cleanup(exitCode): exitCode is Undefined when none is given.
\* The caller says what becomes of main, stencil and cliLog.
cleanup(exitCode) ==
    /\ timers' = timers \ { debounceTimer }
    /\ vitestProcess' = 0
    /\ stencilProcess' = 0
    /\ tempFileExists' = (tempFileExists /\ tempStencilConfigPath = 0)
    /\ exit' = IF exitCode = Undefined THEN exit ELSE exitCode
    /\ UNCHANGED << watch, debounceTimer, buildCount, isRunningTests,
                    tempStencilConfigPath, vitestAlive >>

\* process.on('SIGINT', () => cleanup()), and the same for SIGTERM.
Signal ==
    /\ exit = Undefined /\ main # "idle"
    /\ cliLog.signals < MaxSignals
    /\ cleanup(Undefined)
    /\ cliLog' = [ cliLog EXCEPT !.signals = @ + 1 ]
    /\ UNCHANGED << main, stencilChild >>
    /\ UNCHANGED notCliVars

\* The main routine up to the end of its await: in watch mode
\* createTemporaryStencilConfig writes the file and returns its path, or
\* returns null.
CreateTemporaryStencilConfig ==
    /\ exit = Undefined /\ main = "config"
    /\ \E written \in BOOLEAN :
         /\ tempStencilConfigPath' = IF written THEN 1 ELSE 0
         /\ tempFileExists' = written
    /\ main' = "spawn"
    /\ UNCHANGED << watch, stencilProcess, vitestProcess, debounceTimer, buildCount,
                    isRunningTests, stencilChild, vitestAlive, timers, exit, cliLog >>
    /\ UNCHANGED notCliVars

\* The rest of the main routine: stencilProcess = spawn('npx', stencilArgs).
StartStencil ==
    /\ exit = Undefined /\ main = "spawn"
    /\ stencilProcess' = 1
    /\ stencilChild' = "spawning"
    /\ main' = "done"
    /\ UNCHANGED << watch, vitestProcess, debounceTimer, buildCount, isRunningTests,
                    tempStencilConfigPath, vitestAlive, timers, tempFileExists, exit,
                    cliLog >>
    /\ UNCHANGED notCliVars

\* The main routine throws: .catch((error) => cleanup(1)).
FatalError ==
    /\ exit = Undefined /\ main = "spawn"
    /\ cleanup(Some(1))
    /\ main' = "done"
    /\ UNCHANGED << stencilChild, cliLog >>
    /\ UNCHANGED notCliVars

\* stencilProcess.stdout.on('data', handleStencilOutput)
StencilOutput ==
    /\ exit = Undefined /\ stencilChild \in { "spawning", "running" }
    /\ buildCount < MaxBuilds
    /\ \E output \in [ finished : BOOLEAN, error : BOOLEAN ] :
         handleStencilOutput(output)
    /\ stencilChild' = "running"
    /\ UNCHANGED << watch, stencilProcess, vitestProcess, isRunningTests,
                    tempStencilConfigPath, main, vitestAlive, tempFileExists, exit >>
    /\ UNCHANGED notCliVars

\* stencilProcess.on('error', ...): Stencil could not be started.
StencilError ==
    /\ exit = Undefined /\ stencilChild = "spawning"
    /\ exit' = Some(1)
    /\ stencilChild' = "gone"
    /\ cliLog' = [ cliLog EXCEPT !.stencilEnd = "error" ]
    /\ UNCHANGED << watch, stencilProcess, vitestProcess, debounceTimer, buildCount,
                    isRunningTests, tempStencilConfigPath, main, vitestAlive, timers,
                    tempFileExists >>
    /\ UNCHANGED notCliVars

\* stencilProcess.on('exit', (code) => ...); code || 1 is 1 for the codes
\* of the model.
StencilExit ==
    /\ exit = Undefined /\ stencilChild \in { "spawning", "running" }
    /\ \E end \in { "code0", "code1", "signal" } :
         /\ cliLog' = [ cliLog EXCEPT !.stencilEnd = end ]
         /\ IF ~watch /\ end = "code0"
            THEN /\ stencilProcess' = 0
                 /\ UNCHANGED << watch, vitestProcess, debounceTimer, buildCount,
                                 isRunningTests, tempStencilConfigPath, vitestAlive,
                                 timers, tempFileExists, exit >>
            ELSE cleanup(Some(1))
    /\ stencilChild' = "gone"
    /\ UNCHANGED main
    /\ UNCHANGED notCliVars

\* debounceTimer = setTimeout(() => { runTests(); }, DEBOUNCE_MS): a pending
\* timer fires.
DebounceTimerFires ==
    /\ exit = Undefined
    /\ \E timer \in timers : timers' = timers \ { timer }
    /\ runTests
    /\ UNCHANGED << watch, stencilProcess, debounceTimer, buildCount,
                    tempStencilConfigPath, main, stencilChild, tempFileExists, exit >>
    /\ UNCHANGED notCliVars

\* vitestProcess.on('exit', (code) => ...), of any Vitest child alive;
\* code || 0 is 0 for code 0 and for null.
VitestExit ==
    /\ exit = Undefined
    /\ \E pid \in vitestAlive, end \in { "code0", "code1", "signal" } :
         /\ vitestAlive' = vitestAlive \ { pid }
         /\ cliLog' = [ cliLog EXCEPT !.vitestEnd = end ]
         /\ exit' = IF watch THEN exit
                    ELSE Some(IF end = "code1" THEN 1 ELSE 0)
    /\ isRunningTests' = FALSE
    /\ vitestProcess' = 0
    /\ UNCHANGED << watch, stencilProcess, debounceTimer, buildCount,
                    tempStencilConfigPath, main, stencilChild, timers, tempFileExists >>
    /\ UNCHANGED notCliVars

\* vitestProcess.on('error', ...): the process could not be started.
VitestError ==
    /\ exit = Undefined
    /\ \E pid \in vitestAlive : vitestAlive' = vitestAlive \ { pid }
    /\ cliLog' = [ cliLog EXCEPT !.vitestEnd = "error" ]
    /\ isRunningTests' = FALSE
    /\ vitestProcess' = 0
    /\ UNCHANGED << watch, stencilProcess, debounceTimer, buildCount,
                    tempStencilConfigPath, main, stencilChild, timers, tempFileExists, exit >>
    /\ UNCHANGED notCliVars

\* Node ends a process that has nothing left to wait for (no child, no
\* timer) with status 0.
EventLoopEmpty ==
    /\ exit = Undefined
    /\ main = "done" /\ stencilChild = "gone" /\ vitestAlive = {} /\ timers = {}
    /\ exit' = Some(0)
    /\ UNCHANGED << watch, stencilProcess, vitestProcess, debounceTimer, buildCount,
                    isRunningTests, tempStencilConfigPath, main, stencilChild, vitestAlive,
                    timers, tempFileExists, cliLog >>
    /\ UNCHANGED notCliVars

\* stencil-test has not been started.
CliIdle ==
    /\ watch = FALSE /\ main = "idle"
    /\ stencilProcess = 0 /\ vitestProcess = 0 /\ debounceTimer = 0
    /\ buildCount = 0 /\ isRunningTests = FALSE /\ tempStencilConfigPath = 0
    /\ stencilChild = "none" /\ vitestAlive = {} /\ timers = {}
    /\ tempFileExists = FALSE /\ exit = Undefined /\ cliLog = NoCliLog

EnvIdle == globalEnvironment = "none" /\ setups = << >>

WaitIdle ==
    /\ frames = 0 /\ onReady = << >> /\ promiseChain = Undefined
    /\ changes = "none"

\* No component has been rendered and no HTML operation has run.
RenderIdle ==
    /\ heap = << >>
    /\ eventSpies = [ has |-> FALSE, spies |-> << >> ]
    /\ listeners = << >>
    /\ attached = TRUE
    /\ lastCall = NoCall
    /\ ncalls = [ n \in EventNames |-> 0 ]
    /\ firstReturned = [ n \in EventNames |-> 0 ]
    /\ sent = [ n \in EventNames |-> << >> ]
    /\ ndispatched = 0
    /\ received = UndefinedValue
    /\ outcome = NoOutcome

\* stencil-test is started, with --watch or without; without it the main
\* routine reaches the spawn of Stencil without an await.
InitCli ==
    /\ RenderIdle /\ EnvIdle /\ WaitIdle
    /\ watch \in BOOLEAN
    /\ main = IF watch THEN "config" ELSE "spawn"
    /\ stencilProcess = 0 /\ vitestProcess = 0 /\ debounceTimer = 0
    /\ buildCount = 0 /\ isRunningTests = FALSE /\ tempStencilConfigPath = 0
    /\ stencilChild = "none" /\ vitestAlive = {} /\ timers = {}
    /\ tempFileExists = FALSE /\ exit = Undefined /\ cliLog = NoCliLog

NextCli ==
    \/ Signal
    \/ CreateTemporaryStencilConfig
    \/ StartStencil
    \/ FatalError
    \/ StencilOutput
    \/ StencilError
    \/ StencilExit
    \/ DebounceTimerFires
    \/ VitestExit
    \/ VitestError
    \/ EventLoopEmpty

SpecCli == InitCli /\ [][NextCli]_vars

(***************************************************************************)
(* The Stencil test environment of Vitest: setup is called for a test file *)
(* with the environment options of that file, teardown after the file.     *)
(***************************************************************************)
\* options as { stencil?: StencilEnvironmentOptions }: without the stencil
\* key, or with it and domEnvironment absent or any string.
StencilEnvironmentOptions ==
    { Undefined }
    \cup { Some([ domEnvironment |-> d ]) :
             d \in { Undefined }
                   \cup { Some(name) : name \in { "mock-doc", "happy-dom", "jsdom", "",
                                                  "foo", "JSDOM" } } }

\* const environmentMap: Record<string, EnvironmentStencil>
environmentMap ==
    ("happy-dom" :> "happyDom") @@ ("jsdom" :> "jsdom") @@ ("mock-doc" :> "mockDoc")

\* async setup(global, options): the environment it sets up, or that it
\* threw.  Lookup is map[key] for a key that is no property of
\* Object.prototype: undefined when the map has no such key.
setup(options) ==
    LET Lookup(map, key) == IF key \in DOMAIN map THEN Some(map[key]) ELSE Undefined
        stencil == IF options = Undefined THEN [ domEnvironment |-> Undefined ]
                   ELSE options[1]
        domEnvironment ==
            IF stencil.domEnvironment = Undefined \/ stencil.domEnvironment = Some("")
            THEN "mock-doc"
            ELSE stencil.domEnvironment[1]
        environment ==
            IF Lookup(environmentMap, domEnvironment) # Undefined
            THEN Lookup(environmentMap, domEnvironment)
            ELSE Lookup(environmentMap, "mock-doc")
    IN  IF environment = Undefined
        THEN [ threw |-> TRUE, error |-> "Unknown domEnvironment", environment |-> "none" ]
        ELSE [ threw |-> FALSE, error |-> "", environment |-> environment[1] ]

Setup ==
    /\ globalEnvironment = "none"
    /\ Len(setups) < MaxFiles
    /\ \E options \in StencilEnvironmentOptions :
         /\ globalEnvironment' = setup(options).environment
         /\ setups' = Append(setups, [ options |-> options, result |-> setup(options) ])
    /\ UNCHANGED notEnvVars

\* teardown(global) of what setup returned
Teardown ==
    /\ globalEnvironment # "none"
    /\ globalEnvironment' = "none"
    /\ UNCHANGED << setups, notEnvVars >>

InitEnv == RenderIdle /\ CliIdle /\ WaitIdle /\ EnvIdle

NextEnv == Setup \/ Teardown

SpecEnv == InitEnv /\ [][NextEnv]_vars

(***************************************************************************)
(* The HTML operations as a state machine: a received value is drawn, then *)
(* one of serializeHtml, toEqualHtml and toEqualLightHtml is applied.      *)
(***************************************************************************)
Slot == HtmlElement("slot", << >>, Undefined, << >>)
Button == HtmlElement("button", << >>, Undefined, << Slot >>)
Style == HtmlElement("style", << >>, Undefined, << TextNode(Chars("b{}")) >>)
Span == HtmlElement("span", << >>, Undefined, << TextNode(Chars("Hi")) >>)
Br == HtmlElement("br", << >>, Undefined, << >>)

ShadowChoices ==
    { Undefined,
      Some(FragmentNode(Some(<< Button >>), FALSE)),
      Some(FragmentNode(Some(<< Style, Button >>), FALSE)),
      Some(FragmentNode(Some(<< Button >>), TRUE)) }

LightChoices ==
    { << >>,
      << TextNode(Chars("Click me")) >>,
      << Span >>,
      << TextNode(Chars("a")), Br, CommentNode(Chars("c")) >> }

Host(shadowRoot, childNodes) ==
    HtmlElement("elem", << Attr("class", "a b") >>, shadowRoot, childNodes)

HostTrees == { Host(sh, l) : sh \in ShadowChoices, l \in LightChoices }

\* <elem class="a b"> with a shadow tree of one <button> holding a <slot>,
\* and the light-DOM text "Click me".
ClickMeHost ==
    Host(Some(FragmentNode(Some(<< Button >>), FALSE)), << TextNode(Chars("Click me")) >>)

Div(childNodes) == HtmlElement("div", << >>, Undefined, childNodes)
SlotFb == HtmlElement("slot-fb", << >>, Undefined, << TextNode(Chars("Fallback")) >>)

\* A host whose light DOM holds another host, each with or without a shadow
\* tree.
Inner(shadowRoot) == HtmlElement("inner", << >>, shadowRoot, << TextNode(Chars("t")) >>)
NestedHosts ==
    { Host(sh, << Inner(ish) >>) :
        sh \in { Undefined, Some(FragmentNode(Some(<< Button >>), FALSE)) },
        ish \in { Undefined,
                  Some(FragmentNode(Some(<< Span >>), FALSE)),
                  Some(FragmentNode(Some(<< Style, Span >>), FALSE)) } }

\* A scoped (non-shadow) component with the slot polyfill: childNodes is the
\* patched accessor (the slotted nodes), __childNodes the nodes really in
\* the DOM (the component's wrapper, with the slotted nodes or the slot
\* fallback inside).
Scoped(hidden, childNodes) ==
    [ HtmlElement("scoped", << Attr("class", "hydrated") >>, Undefined, childNodes)
        EXCEPT !.hiddenChildNodes = Some(hidden) ]
ScopedSlotted == Scoped(<< Div(<< Span >>) >>, << Span >>)
ScopedEmpty == Scoped(<< Div(<< SlotFb >>) >>, << >>)
ScopedTrees == { ScopedSlotted, ScopedEmpty, Host(Undefined, << ScopedSlotted >>) }

\* Void elements, with and without child nodes; the last has no localName.
VoidTrees ==
    { HtmlElement("br", << >>, Undefined, << TextNode(Chars("x")) >>),
      HtmlElement("img", << Attr("alt", "") >>, Undefined, << Span >>),
      Div(<< ElementNode(<< >>, Some(Chars("HR")), Some(<< >>), Undefined, Undefined,
                         Some(<< >>)),
             Span >>) }

\* Style elements elsewhere than directly under a shadow root: in the light
\* DOM, deeper inside a shadow tree, at the top level of a fragment.
StyleTrees ==
    { Host(Undefined, << Style, Span >>),
      Host(Some(FragmentNode(Some(<< Div(<< Style, Button >>) >>), FALSE)), << >>),
      FragmentNode(Some(<< Style, Span >>), FALSE) }

\* Nodes that lack fields the serializer reads: no childNodes and no
\* attributes; no localName and no tagName; no attributes; a fragment with
\* no childNodes.
MalformedTrees ==
    { ElementNode(Chars("x"), Undefined, Undefined, Undefined, Undefined, Undefined),
      ElementNode(<< >>, Undefined, Some(<< >>), Undefined, Undefined, Some(<< >>)),
      ElementNode(Chars("x"), Some(Chars("X")), Undefined, Undefined, Undefined,
                  Some(<< TextNode(Chars("t")) >>)),
      FragmentNode(Undefined, FALSE) }

\* An element whose name is the first letter of the name of its only child,
\* a void element; and a comment before an element.
PrefixTrees ==
    { HtmlElement("b", << >>, Undefined, << Br >>),
      Div(<< CommentNode(Chars("c")), Span >>) }

ReceivedValues ==
    { ObjectValue(t) : t \in HostTrees }
    \cup { ObjectValue(t) : t \in NestedHosts \cup ScopedTrees \cup VoidTrees
                                  \cup StyleTrees \cup MalformedTrees \cup PrefixTrees }
    \cup { ObjectValue(FragmentNode(Some(<< Button, TextNode(Chars("x")) >>), FALSE)) }
    \cup { NullValue, UndefinedValue, NumberValue,
           Thenable(ObjectValue(PlainObject)),
           Thenable(ObjectValue(ClickMeHost)),
           ObjectValue(PlainObject),
           ObjectValue(TextNode(Chars("x"))),
           StringValue(Chars("<div class=\"test\">   <span>Hello</span>   </div>")),
           StringValue(Chars("<div class=\"test\"><span>Hello</span></div>")) }

CompactClickMe ==
    Chars("<elem class=\"a b\"><mock:shadow-root><button><slot></slot></button></mock:shadow-root>Click me</elem>")
SpacedClickMe ==
    Chars("<elem class=\"a b\"><mock:shadow-root><button><slot></slot></button></mock:shadow-root> Click me </elem>")

ExpectedHtmls ==
    { CompactClickMe,
      SpacedClickMe,
      Chars("\n  <elem class=\"a b\">\n    <mock:shadow-root>\n      <button>\n        <slot></slot>\n      </button>\n    </mock:shadow-root>\n    Click me\n  </elem>\n"),
      Chars("<elem class=\"a b\">\n  Click me\n</elem>"),
      Chars("<div class=\"test\"><span>Hello</span></div>"),
      Chars("<scoped class=\"hydrated\">\n  <span>\n    Hi\n  </span>\n</scoped>"),
      Chars("\n  <scoped class=\"hydrated\"></scoped>\n") }

SerializeHtml ==
    /\ outcome = NoOutcome
    /\ \E options \in SerializeOptions :
         LET result == serializeHtml(received, options)
         IN  outcome' = [ NoOutcome EXCEPT
                            !.op = "serializeHtml", !.options = options,
                            !.kind = IF result.threw THEN "threw" ELSE "returned",
                            !.error = IF result.threw THEN "TypeError" ELSE "",
                            !.html = result.html ]
    /\ UNCHANGED << received, spyVars, toolVars >>

ToEqualHtml ==
    /\ outcome = NoOutcome
    /\ \E expected \in ExpectedHtmls : outcome' = toEqualHtml(received, expected)
    /\ UNCHANGED << received, spyVars, toolVars >>

ToEqualLightHtml ==
    /\ outcome = NoOutcome
    /\ \E expected \in ExpectedHtmls : outcome' = toEqualLightHtml(received, expected)
    /\ UNCHANGED << received, spyVars, toolVars >>

InitHtml ==
    /\ heap = << >>
    /\ eventSpies = [ has |-> FALSE, spies |-> << >> ]
    /\ listeners = << >>
    /\ attached = TRUE
    /\ lastCall = NoCall
    /\ ncalls = [ n \in EventNames |-> 0 ]
    /\ firstReturned = [ n \in EventNames |-> 0 ]
    /\ sent = [ n \in EventNames |-> << >> ]
    /\ ndispatched = 0
    /\ received \in ReceivedValues
    /\ outcome = NoOutcome
    /\ CliIdle /\ EnvIdle /\ WaitIdle

NextHtml == SerializeHtml \/ ToEqualHtml \/ ToEqualLightHtml

SpecHtml == InitHtml /\ [][NextHtml]_vars

(***************************************************************************)
(* waitForChanges of a render result.  The componentOnReady promise of a   *)
(* component settles when the component does, whenever that is; the two    *)
(* reactions on Promise.all run as microtasks once they are due.           *)
(***************************************************************************)
\* The elements that are Stencil components: typeof componentOnReady is
\* 'function' for these and for no other.
Components == { Chars("my-button"), Chars("my-icon"), Chars("my-badge") }

\* waitComponentOnReady(elm, promises): the components whose promises it
\* pushes, in order.  elm is Undefined for a null shadowRoot.
RECURSIVE waitComponentOnReady(_)
waitComponentOnReady(elm) ==
    IF elm = Undefined THEN << >>
    ELSE
    LET children == SelectSeq(elm[1].childNodes[1], LAMBDA child : child.nodeType = 1)
        pushed[i \in 0..Len(children)] ==
            IF i = 0 THEN << >>
            ELSE pushed[i - 1]
                 \o (IF /\ \E k \in 1..Len(children[i].tagName[1]) :
                              children[i].tagName[1][k] = "-"
                        /\ children[i].localName \in Components
                     THEN << children[i].localName >> ELSE << >>)
                 \o waitComponentOnReady(Some(children[i]))
    IN  waitComponentOnReady(elm[1].shadowRoot) \o pushed[Len(children)]

\* The rendered elements waitForChanges is called on: components nested in
\* a shadow root, in the shadow root of one of these and in the light DOM;
\* no component at all; one component beside an element with a dash in its
\* name that is none.
WaitTrees ==
    { HtmlElement("my-app", << >>,
          Some(FragmentNode(Some(<<
              HtmlElement("my-button", << >>,
                  Some(FragmentNode(Some(<< HtmlElement("my-icon", << >>, Undefined, << >>) >>),
                                    FALSE)),
                  << TextNode(Chars("t")) >>) >>), FALSE)),
          << Div(<< HtmlElement("my-badge", << >>, Undefined, << >>) >>) >>),
      Div(<< Span >>),
      Div(<< SlotFb, HtmlElement("my-icon", << >>, Undefined, << >>) >>) }

\* waitForChanges(): the promise is created and the first frame requested.
WaitForChanges ==
    /\ changes = "none"
    /\ changes' = "pending"
    /\ UNCHANGED << frames, onReady, promiseChain, notWaitVars >>

\* A requestAnimationFrame callback runs: the first requests the second,
\* the second collects the promises and hands them to Promise.all.
AnimationFrame ==
    /\ changes = "pending" /\ frames < 2
    /\ frames' = frames + 1
    /\ promiseChain' = IF frames = 1 THEN Some(waitComponentOnReady(received.node))
                       ELSE promiseChain
    /\ UNCHANGED << changes, onReady, notWaitVars >>

\* A component becomes ready, or fails to: its componentOnReady promise is
\* fulfilled or rejected.
ComponentReady ==
    /\ \E name \in Components, how \in { "fulfilled", "rejected" } :
         /\ onReady[name] = "pending"
         /\ onReady' = [ onReady EXCEPT ![name] = how ]
    /\ UNCHANGED << frames, promiseChain, changes, notWaitVars >>

\* Promise.all(promiseChain).then(() => resolve()): every promise of the
\* chain is fulfilled.
AllFulfilled ==
    /\ changes = "pending" /\ promiseChain # Undefined
    /\ \A i \in 1..Len(promiseChain[1]) : onReady[promiseChain[1][i]] = "fulfilled"
    /\ changes' = "resolved"
    /\ UNCHANGED << frames, onReady, promiseChain, notWaitVars >>

AnyRejectedUncaught ==
    /\ changes = "pending" /\ promiseChain # Undefined
    /\ \E i \in 1..Len(promiseChain[1]) : onReady[promiseChain[1][i]] = "rejected"
    /\ changes' = "unhandled"
    /\ UNCHANGED << frames, onReady, promiseChain, notWaitVars >>

\* .catch(() => resolve()): Promise.all rejects as soon as one promise of
\* the chain is rejected.
AnyRejected ==
    /\ changes = "pending" /\ promiseChain # Undefined
    /\ \E i \in 1..Len(promiseChain[1]) : onReady[promiseChain[1][i]] = "rejected"
    /\ changes' = "resolved"
    /\ UNCHANGED << frames, onReady, promiseChain, notWaitVars >>

\* A component has been rendered; none of its components is ready yet.
InitWait ==
    /\ heap = << >>
    /\ eventSpies = [ has |-> FALSE, spies |-> << >> ]
    /\ listeners = << >>
    /\ attached = TRUE
    /\ lastCall = NoCall
    /\ ncalls = [ n \in EventNames |-> 0 ]
    /\ firstReturned = [ n \in EventNames |-> 0 ]
    /\ sent = [ n \in EventNames |-> << >> ]
    /\ ndispatched = 0
    /\ received \in { ObjectValue(tree) : tree \in WaitTrees }
    /\ outcome = NoOutcome
    /\ CliIdle /\ EnvIdle
    /\ frames = 0 /\ promiseChain = Undefined /\ changes = "none"
    /\ onReady = [ name \in Components |-> "pending" ]

NextWait ==
    WaitForChanges \/ AnimationFrame \/ ComponentReady \/ AllFulfilled \/ AnyRejected

\* The reactions are microtasks: once due they run.
SpecWait ==
    InitWait /\ [][NextWait]_vars /\ WF_vars(AllFulfilled) /\ WF_vars(AnyRejected)

(***************************************************************************)
(* normalizeHtml as a state machine: a markup string is drawn, white space *)
(* is inserted between its tags, and the string is normalized, once and    *)
(* again, or two strings are compared by toEqualHtml.                      *)
(***************************************************************************)
MarkupAlphabet == { "<", ">", " ", "\n", "a" }
MarkupStrings == UNION { [1..n -> MarkupAlphabet] : n \in 0..MaxLen }

\* Markup a parser reads back as written.
WellFormedMarkups ==
    { Chars("<div class=\"test\"><span>Hello</span></div>"),
      Chars("<p>a</p><p>b</p>") }

\* The string being worked on: the one drawn, or the one with white space
\* inserted.
Edited == IF outcome.op = "insert" THEN outcome.html ELSE received.str

\* Whether index i of s lies between two adjacent tags: after a '>', with
\* only white space between it and the next '<'.
BetweenTags(s, i) ==
    /\ i >= 1 /\ i < Len(s)
    /\ LET before == CHOOSE j \in 0..i :
                         /\ j = 0 \/ ~IsSpace(s[j])
                         /\ \A k \in (j + 1)..i : IsSpace(s[k])
           after == SkipSpace(s, i + 1)
       IN  /\ before >= 1 /\ s[before] = ">"
           /\ after <= Len(s) /\ s[after] = "<"

InsertWhiteSpace ==
    /\ outcome.op \in { "none", "insert" }
    /\ Len(Edited) < Len(received.str) + MaxInsert
    /\ \E i \in 1..Len(Edited), c \in WhiteSpace :
         /\ BetweenTags(Edited, i)
         /\ outcome' = [ NoOutcome EXCEPT
                           !.op = "insert",
                           !.html = SubSeq(Edited, 1, i) \o << c >>
                                      \o SubSeq(Edited, i + 1, Len(Edited)) ]
    /\ UNCHANGED << received, spyVars, toolVars >>

NormalizeHtml ==
    /\ outcome.op \in { "none", "insert" }
    /\ outcome' = [ NoOutcome EXCEPT
                      !.op = "normalizeHtml", !.kind = "returned",
                      !.expected = Edited, !.html = normalizeHtml(Edited) ]
    /\ UNCHANGED << received, spyVars, toolVars >>

NormalizeAgain ==
    /\ outcome.op = "normalizeHtml"
    /\ outcome' = [ NoOutcome EXCEPT
                      !.op = "normalizeHtml again", !.kind = "returned",
                      !.expected = outcome.html, !.html = normalizeHtml(outcome.html) ]
    /\ UNCHANGED << received, spyVars, toolVars >>

\* expect(html1).toEqualHtml(html2) on the string drawn and the one with
\* white space inserted, either way round.
ToEqualHtmlStrings ==
    /\ outcome.op \in { "none", "insert" }
    /\ received.str \in WellFormedMarkups
    /\ \/ outcome' = toEqualHtml(StringValue(Edited), received.str)
       \/ outcome' = toEqualHtml(received, Edited)
    /\ UNCHANGED << received, spyVars, toolVars >>

InitNorm ==
    /\ heap = << >>
    /\ eventSpies = [ has |-> FALSE, spies |-> << >> ]
    /\ listeners = << >>
    /\ attached = TRUE
    /\ lastCall = NoCall
    /\ ncalls = [ n \in EventNames |-> 0 ]
    /\ firstReturned = [ n \in EventNames |-> 0 ]
    /\ sent = [ n \in EventNames |-> << >> ]
    /\ ndispatched = 0
    /\ received \in { StringValue(s) : s \in MarkupStrings \cup WellFormedMarkups }
    /\ outcome = NoOutcome
    /\ CliIdle /\ EnvIdle /\ WaitIdle

NextNorm == InsertWhiteSpace \/ NormalizeHtml \/ NormalizeAgain \/ ToEqualHtmlStrings

SpecNorm == InitNorm /\ [][NextNorm]_vars

(***************************************************************************)
(* toMatchClasses.                                                         *)
(***************************************************************************)
\* The characters of class attributes, in the order of their code units.
ClassChars == << " ", "a", "b" >>
CodeUnit(c) == CHOOSE k \in 1..Len(ClassChars) : ClassChars[k] = c

\* a < b as Array.prototype.sort compares strings: by code units.
RECURSIVE StringLess(_, _)
StringLess(a, b) ==
    IF b = << >> THEN FALSE
    ELSE IF a = << >> THEN TRUE
    ELSE IF a[1] = b[1] THEN StringLess(Tail(a), Tail(b))
    ELSE CodeUnit(a[1]) < CodeUnit(b[1])

\* Array.prototype.sort() of strings.
sort(list) ==
    LET place(i) == 1 + Cardinality({ j \in 1..Len(list) :
                            \/ StringLess(list[j], list[i])
                            \/ list[j] = list[i] /\ j < i })
    IN  [ p \in 1..Len(list) |-> list[CHOOSE i \in 1..Len(list) : place(i) = p] ]

\* str.split(/\s+/) from index start on.
RECURSIVE SplitSpace(_, _)
SplitSpace(s, start) ==
    LET spaces == { j \in start..Len(s) : IsSpace(s[j]) }
    IN  IF spaces = {} THEN << SubSeq(s, start, Len(s)) >>
        ELSE LET next == CHOOSE j \in spaces : \A k \in spaces : j <= k
             IN  << SubSeq(s, start, next - 1) >> \o SplitSpace(s, SkipSpace(s, next))

\* .filter(Boolean) on strings
Truthy(str) == str # << >>

\* received.getAttribute(name): the value, Undefined for null.
getAttribute(element, name) ==
    LET attributes == element.attributes[1]
        hits == { i \in 1..Len(attributes) : attributes[i].name = name }
    IN  IF hits = {} THEN Undefined
        ELSE Some(attributes[CHOOSE i \in hits : \A h \in hits : i <= h].value)

toMatchClassesSubset(value, classNames) ==
    LET classAttr == IF getAttribute(value.node[1], Chars("class")) = Undefined
                     THEN << >> ELSE getAttribute(value.node[1], Chars("class"))[1]
        actualClasses == SelectSeq(SplitSpace(classAttr, 1), Truthy)
    IN  [ NoOutcome EXCEPT
            !.op = "toMatchClasses", !.kind = "returned", !.expected = classNames,
            !.pass = \A i \in 1..Len(classNames) :
                         \E j \in 1..Len(actualClasses) : actualClasses[j] = classNames[i] ]

\* function toMatchClasses(received, classNames)
toMatchClasses(value, classNames) ==
    LET attr == getAttribute(value.node[1], Chars("class"))
        classAttr == IF attr = Undefined \/ attr = Some(<< >>) THEN << >> ELSE attr[1]
        actualClasses == sort(SelectSeq(SplitSpace(classAttr, 1), Truthy))
        expectedClasses == sort(SelectSeq(classNames, Truthy))
    IN  [ NoOutcome EXCEPT
            !.op = "toMatchClasses", !.kind = "returned", !.expected = classNames,
            !.pass = /\ Len(actualClasses) = Len(expectedClasses)
                     /\ \A idx \in 1..Len(actualClasses) :
                            actualClasses[idx] = expectedClasses[idx] ]

\* The elements toMatchClasses is given: without a class attribute, or with
\* one of any value.
ClassValues == UNION { [1..n -> { " ", "a", "b" }] : n \in 0..MaxClassLen }
ClassElements ==
    { HtmlElement("button", << >>, Undefined, << >>) }
    \cup { HtmlElement("button", << [ Attr("class", "") EXCEPT !.value = v ] >>,
                       Undefined, << >>) : v \in ClassValues }

\* The lists of class names it is given.
ExpectedClassNames == { << >>, Chars("a"), Chars("b"), Chars("ab") }
ExpectedClassLists == UNION { [1..n -> ExpectedClassNames] : n \in 0..MaxClasses }

(***************************************************************************)
(* toEqualAttributes.  expectedAttrs is the sequence of its <<name, value>>*)
(* entries in insertion order; a mismatch is the string the code pushes.   *)
(***************************************************************************)
toEqualAttributesFalsyMissing(value, expectedAttrs) ==
    LET Quoted(str) == << "\"" >> \o str \o << "\"" >>
        Mismatch(entry) ==
            LET actualValue == getAttribute(value.node[1], entry[1])
            IN  IF actualValue = Undefined \/ actualValue = Some(<< >>)
                THEN << Chars("missing ") \o Quoted(entry[1]) >>
                ELSE IF actualValue[1] # entry[2]
                THEN << Quoted(entry[1]) \o Chars(": expected ") \o Quoted(entry[2])
                        \o Chars(", got ") \o Quoted(actualValue[1]) >>
                ELSE << >>
        mismatches[i \in 0..Len(expectedAttrs)] ==
            IF i = 0 THEN << >> ELSE mismatches[i - 1] \o Mismatch(expectedAttrs[i])
    IN  [ NoOutcome EXCEPT
            !.op = "toEqualAttributes", !.kind = "returned", !.expected = expectedAttrs,
            !.pass = Len(mismatches[Len(expectedAttrs)]) = 0,
            !.mismatches = mismatches[Len(expectedAttrs)] ]

\* function toEqualAttributes(received, expectedAttrs)
toEqualAttributes(value, expectedAttrs) ==
    LET Quoted(str) == << "\"" >> \o str \o << "\"" >>
        Mismatch(entry) ==
            LET actualValue == getAttribute(value.node[1], entry[1])
            IN  IF actualValue = Undefined
                THEN << Chars("missing ") \o Quoted(entry[1]) >>
                ELSE IF actualValue[1] # entry[2]
                THEN << Quoted(entry[1]) \o Chars(": expected ") \o Quoted(entry[2])
                        \o Chars(", got ") \o Quoted(actualValue[1]) >>
                ELSE << >>
        mismatches[i \in 0..Len(expectedAttrs)] ==
            IF i = 0 THEN << >> ELSE mismatches[i - 1] \o Mismatch(expectedAttrs[i])
    IN  [ NoOutcome EXCEPT
            !.op = "toEqualAttributes", !.kind = "returned", !.expected = expectedAttrs,
            !.pass = Len(mismatches[Len(expectedAttrs)]) = 0,
            !.mismatches = mismatches[Len(expectedAttrs)] ]

\* The elements toEqualAttributes is given: each of two attributes absent or
\* present with a value, the empty one included.
AttrNames == << Chars("type"), Chars("id") >>
AttrValues == { << >>, Chars("x"), Chars("y") }
AttrElements ==
    LET attributes(v) ==
            LET upTo[i \in 0..Len(AttrNames)] ==
                    IF i = 0 THEN << >>
                    ELSE IF v[i] = Undefined THEN upTo[i - 1]
                    ELSE Append(upTo[i - 1],
                                [ Attr("", "") EXCEPT !.name = AttrNames[i],
                                      !.localName = AttrNames[i], !.value = v[i][1] ])
            IN  upTo[Len(AttrNames)]
    IN  { HtmlElement("button", attributes(v), Undefined, << >>)
          : v \in [1..Len(AttrNames) -> { Undefined } \cup { Some(x) : x \in AttrValues }] }

\* The objects it is given as expectedAttrs: any entries with distinct keys.
ExpectedAttrs ==
    { o \in UNION { [1..n -> { AttrNames[k] : k \in 1..Len(AttrNames) } \X AttrValues]
                    : n \in 0..Len(AttrNames) } : IsObject(o) }

ToEqualAttributes ==
    /\ outcome = NoOutcome
    /\ \E expectedAttrs \in ExpectedAttrs :
         outcome' = toEqualAttributes(received, expectedAttrs)
    /\ UNCHANGED << received, spyVars, toolVars >>

ToMatchClasses ==
    /\ outcome = NoOutcome
    /\ \E classNames \in ExpectedClassLists :
         outcome' = toMatchClasses(received, classNames)
    /\ UNCHANGED << received, spyVars, toolVars >>

InitClasses ==
    /\ heap = << >>
    /\ eventSpies = [ has |-> FALSE, spies |-> << >> ]
    /\ listeners = << >>
    /\ attached = TRUE
    /\ lastCall = NoCall
    /\ ncalls = [ n \in EventNames |-> 0 ]
    /\ firstReturned = [ n \in EventNames |-> 0 ]
    /\ sent = [ n \in EventNames |-> << >> ]
    /\ ndispatched = 0
    /\ received \in { ObjectValue(e) : e \in ClassElements \cup AttrElements }
    /\ outcome = NoOutcome
    /\ CliIdle /\ EnvIdle /\ WaitIdle

NextClasses == ToMatchClasses \/ ToEqualAttributes

SpecClasses == InitClasses /\ [][NextClasses]_vars

Init ==
    /\ heap = << >>
    /\ eventSpies = [ has |-> FALSE, spies |-> << >> ]
    /\ listeners = << >>
    /\ attached = TRUE
    /\ lastCall = NoCall
    /\ ncalls = [ n \in EventNames |-> 0 ]
    /\ firstReturned = [ n \in EventNames |-> 0 ]
    /\ sent = [ n \in EventNames |-> << >> ]
    /\ ndispatched = 0
    /\ received = UndefinedValue
    /\ outcome = NoOutcome
    /\ CliIdle /\ EnvIdle /\ WaitIdle

SpyOnEvent == \E n \in EventNames : spyOnEvent(n) /\ UNCHANGED << htmlVars, toolVars >>
DispatchEvent ==
    \E n \in EventNames, d \in EmittedDetails : dispatchEvent(n, d) /\ UNCHANGED << htmlVars, toolVars >>
Unmount == unmount /\ UNCHANGED << htmlVars, toolVars >>

Next == SpyOnEvent \/ DispatchEvent \/ Unmount

Spec == Init /\ [][Next]_vars

(***************************************************************************)
(* Claims about the event spies, checked under Spec.                       *)
(***************************************************************************)
SpyIds == 1..Len(heap)
Called == { n \in EventNames : ncalls[n] > 0 }
\* The names whose first spyOnEvent call returned a spy.
Spied == { n \in EventNames : firstReturned[n] # 0 }
SpyOf(n) == heap[firstReturned[n]]
Details(events) == [ i \in 1..Len(events) |-> events[i].detail ]
Last(seq) == seq[Len(seq)]

\* C1: spyOnEvent can be called with several distinct event names on one
\* render result: every call returns an EventSpy whose eventName is the
\* requested name, and the spy of each requested name records the events of
\* that name dispatched afterwards.
C1_EveryNameGetsItsSpy ==
    /\ lastCall # NoCall =>
         /\ lastCall.result \in SpyIds
         /\ heap[lastCall.result].eventName = lastCall.name
    /\ \A n \in Called :
         /\ firstReturned[n] \in SpyIds
         /\ Details(SpyOf(n).events) = sent[n]

\* C2: a repeated spyOnEvent(name) returns what the first call of that name
\* returned and registers no further listener: every spy has exactly one
\* listener, and a spy holds exactly one entry per dispatch of its event
\* since it was handed out, however often spyOnEvent(name) was called.
C2_RepeatedCallSameSpy ==
    /\ lastCall # NoCall => lastCall.result = firstReturned[lastCall.name]
    /\ \A s \in SpyIds : Cardinality({ i \in 1..Len(listeners) : listeners[i].spy = s }) = 1
    /\ \A n \in Spied : Len(SpyOf(n).events) = Len(sent[n])

\* The same name was asked for at least twice, the call returned the spy of
\* the first call, and the event was dispatched after the repeated call.
C2_Witness ==
    /\ lastCall.name \in EventNames
    /\ ncalls[lastCall.name] >= 2
    /\ lastCall.result # 0
    /\ lastCall.result = firstReturned[lastCall.name]
    /\ Len(sent[lastCall.name]) > lastCall.seen
    /\ Len(heap[lastCall.result].events) = Len(sent[lastCall.name])

\* C3: in every reachable state of every EventSpy, length is the number of
\* entries of events, firstEvent is the first and lastEvent the last entry;
\* with no event captured, length is 0 and both are undefined.
C3_SpyFieldsAgree ==
    \A s \in SpyIds :
        /\ heap[s].length = Len(heap[s].events)
        /\ IF heap[s].events = << >>
           THEN heap[s].firstEvent = Undefined /\ heap[s].lastEvent = Undefined
           ELSE /\ heap[s].firstEvent = Some(Head(heap[s].events))
                /\ heap[s].lastEvent = Some(Last(heap[s].events))

\* A spy that captured several events whose first and last differ.
C3_Witness ==
    \E s \in SpyIds :
        /\ heap[s].length >= 2
        /\ heap[s].firstEvent # heap[s].lastEvent
        /\ heap[s].firstEvent = Some(Head(heap[s].events))

\* C4: events is append-only and in dispatch order: a dispatch of the spied
\* event adds exactly that event at the end and makes it lastEvent, nothing
\* else changes events, no spy is lost, and firstEvent, once set, stays.
C4_AppendOnly ==
    [][ /\ Len(heap') >= Len(heap)
        /\ \A s \in SpyIds :
             LET old == heap[s]
                 new == heap'[s]
                 name == old.eventName
             IN  /\ IF sent'[name] # sent[name]
                    THEN LET ev == CustomEvent(name, Last(sent'[name]))
                         IN  /\ new.events = Append(old.events, ev)
                             /\ new.lastEvent = Some(ev)
                    ELSE new.events = old.events /\ new.lastEvent = old.lastEvent
                 /\ old.firstEvent # Undefined => new.firstEvent = old.firstEvent
      ]_vars

\* A spy that captured three events, in the order they were dispatched.
C4_Witness ==
    \E n \in Spied :
        /\ Len(SpyOf(n).events) >= 3
        /\ Details(SpyOf(n).events) = sent[n]
        /\ sent[n][1] # sent[n][2]

\* C5: once unmount() was called, the registry holds no entry for the
\* target any more and later dispatches grow no spy.
C5_SpiesDiscardedOnUnmount ==
    [][ ~attached =>
          /\ ~eventSpies.has
          /\ \A s \in SpyIds : heap'[s].events = heap[s].events
      ]_vars

\* C6: after k dispatches of the spied event, toHaveReceivedEvent passes iff
\* k > 0 and toHaveReceivedEventTimes(N) passes iff N = k; neither throws.
C6_ReceivedCounts ==
    \A n \in Spied :
        LET k == Len(sent[n])
        IN  /\ toHaveReceivedEvent(SpyOf(n)) = Returned(k > 0)
            /\ \A N \in 0..(MaxEvents + 1) :
                 toHaveReceivedEventTimes(SpyOf(n), N) = Returned(N = k)

\* Three dispatches of the spied event: Times(3) passes, Times(2) fails.
C6_Witness ==
    \E n \in Spied :
        /\ Len(sent[n]) = 3
        /\ toHaveReceivedEventTimes(SpyOf(n), 3).pass
        /\ ~toHaveReceivedEventTimes(SpyOf(n), 2).pass

\* C7: the First, Last (and its alias) and Nth detail matchers compare the
\* expected detail with the detail of the first, the last and the i-th
\* (0-indexed) dispatched event; none throws; each fails when no event was
\* captured, and the Nth fails whenever i < 0 or i >= length.
C7_DetailMatchersPickEvent ==
    \A n \in Spied : \A d \in ExpectedDetails :
        LET k == Len(sent[n])
            spy == SpyOf(n)
        IN  /\ toHaveFirstReceivedEventDetail(spy, d)
                 = Returned(k > 0 /\ safeEquals(sent[n][1], d))
            /\ toHaveLastReceivedEventDetail(spy, d)
                 = Returned(k > 0 /\ safeEquals(sent[n][k], d))
            /\ toHaveReceivedEventDetail(spy, d) = toHaveLastReceivedEventDetail(spy, d)
            /\ \A i \in (0 - 1)..(k + 1) :
                 toHaveNthReceivedEventDetail(spy, i, d)
                   = Returned(i >= 0 /\ i < k /\ safeEquals(sent[n][i + 1], d))

\* Three events whose details differ: the Nth matcher tells them apart.
C7_Witness ==
    \E n \in Spied :
        /\ Len(sent[n]) = 3
        /\ toHaveNthReceivedEventDetail(SpyOf(n), 1, sent[n][2]).pass
        /\ ~toHaveNthReceivedEventDetail(SpyOf(n), 0, sent[n][2]).pass
        /\ ~toHaveNthReceivedEventDetail(SpyOf(n), 3, sent[n][3]).pass

\* Deep equality of two payloads: the same keys with equal values, in
\* whatever order the keys were inserted.
DeepEqual(a, b) == { a[i] : i \in 1..Len(a) } = { b[i] : i \in 1..Len(b) }

\* C8: for serializable payloads the detail matchers pass iff the captured
\* detail is deeply equal to the expected one, whatever the key order.
C8_DetailDeepEquality ==
    \A n \in Spied : \A d \in SerializableDetails :
        LET k == Len(sent[n])
            spy == SpyOf(n)
        IN  k > 0 =>
              /\ toHaveFirstReceivedEventDetail(spy, d).pass = DeepEqual(sent[n][1], d)
              /\ toHaveReceivedEventDetail(spy, d).pass = DeepEqual(sent[n][k], d)
              /\ \A i \in 0..(k - 1) :
                   toHaveNthReceivedEventDetail(spy, i, d).pass
                     = DeepEqual(sent[n][i + 1], d)

(***************************************************************************)
(* Claims about the HTML matchers and the serializer, checked under        *)
(* SpecHtml.                                                               *)
(***************************************************************************)
HtmlMatchers == { "toEqualHtml", "toEqualLightHtml" }

\* The three classes of usage error of the HTML matchers.
UsageError(value) ==
    \/ value.kind \in { "null", "undefined" }
    \/ value.hasThen
    \/ value.kind # "string" /\ AsNode(value).nodeType \notin { 1, 11 }

\* C9 as stated: on each class of usage error toEqualHtml and
\* toEqualLightHtml signal a type error and return no pass/fail result.
C9_UsageErrorsAreTypeErrors ==
    (outcome.op \in HtmlMatchers /\ UsageError(received)) =>
        (outcome.kind = "threw" /\ outcome.error = "TypeError")

\* C9 as amended: on each class of usage error the two matchers throw and
\* return no result; the error is a plain Error for null and undefined and a
\* TypeError for a promise-like value and for a value that is neither a
\* string nor an Element nor a fragment.
C9_UsageErrorsThrow ==
    (outcome.op \in HtmlMatchers /\ UsageError(received)) =>
        /\ outcome.kind = "threw"
        /\ outcome.error = IF received.kind \in { "null", "undefined" } THEN "Error"
                           ELSE "TypeError"

\* An element that has a then method was handed to toEqualLightHtml.
C9_Witness ==
    /\ outcome.op = "toEqualLightHtml"
    /\ received = Thenable(ObjectValue(ClickMeHost))
    /\ outcome.kind = "threw"
    /\ outcome.error = "TypeError"

\* serializeHtml(ClickMeHost, { serializeShadowRoot: true, pretty }) returned.
ClickMeSerialized(pretty) ==
    /\ outcome.op = "serializeHtml"
    /\ received = ObjectValue(ClickMeHost)
    /\ outcome.options = [ NoOptions EXCEPT !.serializeShadowRoot = "true",
                                            !.pretty = pretty ]

\* C10 as stated: serializing the element with shadow inclusion on and every
\* other option at its default gives, after normalizeHtml, the markup with
\* no white space around the text or between tags.
C10_ClickMeCompact ==
    ClickMeSerialized("unset") =>
        (outcome.kind = "returned" /\ normalizeHtml(outcome.html) = CompactClickMe)

\* C10 as amended: with every other option at its default (pretty on) the
\* normalized markup has no white space between tags and one space on each
\* side of the text; with pretty off it has none around the text either.
C10_ClickMeNormalized ==
    /\ ClickMeSerialized("unset") =>
         (outcome.kind = "returned" /\ normalizeHtml(outcome.html) = SpacedClickMe)
    /\ ClickMeSerialized("false") =>
         (outcome.kind = "returned" /\ normalizeHtml(outcome.html) = CompactClickMe)

\* The element was serialized with the default options and shadow inclusion.
C10_Witness ==
    /\ ClickMeSerialized("unset")
    /\ outcome.kind = "returned"
    /\ outcome.html # << >>

(***************************************************************************)
(* Claims about shadow trees and the slot polyfill, checked under SpecHtml. *)
(***************************************************************************)
\* The received values that are live elements or fragments.
TreeValues ==
    { v \in ReceivedValues :
        v.kind = "object" /\ ~v.hasThen /\ v.node[1].nodeType \in { 1, 11 } }

\* The tree without any of its shadow trees, at every depth.
RECURSIVE StripShadow(_)
StripShadow(node) ==
    [ node EXCEPT
        !.shadowRoot = Undefined,
        !.childNodes =
            IF node.childNodes = Undefined THEN Undefined
            ELSE Some([ i \in 1..Len(node.childNodes[1]) |->
                          StripShadow(node.childNodes[1][i]) ]) ]

\* Two received trees that differ at most in their shadow trees.
SameLight(a, b) == StripShadow(a.node[1]) = StripShadow(b.node[1])

HasShadowTree(value) == value.node[1].shadowRoot # Undefined

\* The part of C11 about toEqualLightHtml: whatever tree stands in for the
\* received one, as long as it has the same light DOM, the matcher throws
\* or returns alike, with the same pass value.
LightHtmlIgnoresShadow ==
    (outcome.op = "toEqualLightHtml" /\ received \in TreeValues) =>
        \A other \in TreeValues :
            SameLight(other, received) =>
                LET o == toEqualLightHtml(other, outcome.expected)
                IN  o.kind = outcome.kind /\ o.pass = outcome.pass

\* The markup toEqualHtml compares decides its verdict for every expected
\* string, so it tells two received trees apart iff their compared markup
\* differs.
HtmlDistinguishes(other) ==
    LET o == toEqualHtml(other, outcome.expected)
    IN  o.kind = "returned" /\ o.html # outcome.html

NotStyle(child) ==
    ~(child.nodeType = 1 /\ child.tagName # Undefined
        /\ toLowerCase(child.tagName[1]) = Chars("style"))
RECURSIVE WithoutShadowStyles(_, _)
WithoutShadowStyles(node, inShadow) ==
    LET kept == IF inShadow THEN SelectSeq(node.childNodes[1], NotStyle)
                ELSE node.childNodes[1]
    IN  [ node EXCEPT
            !.shadowRoot =
                IF node.shadowRoot = Undefined THEN Undefined
                ELSE Some(WithoutShadowStyles(node.shadowRoot[1], TRUE)),
            !.childNodes =
                IF node.childNodes = Undefined THEN Undefined
                ELSE Some([ i \in 1..Len(kept) |-> WithoutShadowStyles(kept[i], FALSE) ]) ]

Contains(s, sub) ==
    \E i \in 1..(Len(s) - Len(sub) + 1) : SubSeq(s, i, i + Len(sub) - 1) = sub

\* serializeHtml returned markup for a received object.
Serialized ==
    outcome.op = "serializeHtml" /\ outcome.kind = "returned" /\ received.kind = "object"

\* C12: serializeHtml(T, {serializeShadowRoot: false}) never contains the
\* shadow-root sentinel tag, also when elements of T carry non-empty shadow
\* trees (the trees of the model hold no text that spells the sentinel).
C12_NoSentinelWithoutShadow ==
    (Serialized /\ outcome.options.serializeShadowRoot = "false") =>
        ~Contains(outcome.html, Chars("mock:shadow-root"))

\* A host with a non-empty shadow tree was serialized without shadow roots.
C12_Witness ==
    /\ Serialized /\ outcome.options.serializeShadowRoot = "false"
    /\ received \in TreeValues /\ HasShadowTree(received)
    /\ received.node[1].shadowRoot[1].childNodes # Some(<< >>)
    /\ Contains(outcome.html, Chars("<elem"))

\* An element with both a public child list and a hidden override list.
IsPolyfilled(value) ==
    value \in TreeValues /\ value.node[1].hiddenChildNodes # Undefined
\* The same element with the override list as its only child list, and with
\* the public list as its only child list.
OverrideOnly(value) ==
    ObjectValue([ value.node[1] EXCEPT !.childNodes = value.node[1].hiddenChildNodes,
                                       !.hiddenChildNodes = Undefined ])
PublicOnly(value) == ObjectValue([ value.node[1] EXCEPT !.hiddenChildNodes = Undefined ])

\* C13 as stated: for an element with both childNodes and __childNodes the
\* output reflects only the hidden override list, whatever the options.
C13_OverrideListWhateverOptions ==
    (outcome.op = "serializeHtml" /\ IsPolyfilled(received)) =>
        /\ outcome.kind = "returned"
        /\ outcome.html = serializeHtml(OverrideOnly(received), outcome.options).html

\* C13, amended: the output reflects only the hidden override list when
\* serializeShadowRoot is true or left at its default, and only the public
\* list when serializeShadowRoot is false; pretty and excludeStyles do not
\* matter.
C13_OverrideListUnlessLightOnly ==
    (outcome.op = "serializeHtml" /\ IsPolyfilled(received)) =>
        /\ outcome.kind = "returned"
        /\ outcome.html =
             serializeHtml(IF Option(outcome.options.serializeShadowRoot, TRUE)
                           THEN OverrideOnly(received) ELSE PublicOnly(received),
                           outcome.options).html

\* The polyfilled component without slotted content was serialized with the
\* default options: the fallback of its hidden list is in the output.
C13_Witness ==
    /\ Serialized /\ received = ObjectValue(ScopedEmpty)
    /\ outcome.options = NoOptions
    /\ Contains(outcome.html, Chars("<slot-fb>"))
    /\ serializeHtml(OverrideOnly(received), NoOptions)
         # serializeHtml(PublicOnly(received), NoOptions)

\* C14: toEqualLightHtml on a slot-polyfilled component compares the outer
\* tag and the public light-DOM children only: nothing that is reachable
\* only through __childNodes is compared, and a component without slotted
\* content compares as an empty element.
C14_LightHtmlOfPolyfilled ==
    (outcome.op = "toEqualLightHtml" /\ IsPolyfilled(received)) =>
        /\ outcome = toEqualLightHtml(PublicOnly(received), outcome.expected)
        /\ outcome.kind = "returned"
        /\ ~Contains(outcome.html, Chars("<div")) /\ ~Contains(outcome.html, Chars("slot-fb"))
        /\ received = ObjectValue(ScopedEmpty) =>
              outcome.html = Chars("<scoped class=\"hydrated\"></scoped>")
        /\ received = ObjectValue(ScopedSlotted) =>
              outcome.html = Chars("<scoped class=\"hydrated\"><span> Hi </span></scoped>")

\* toEqualLightHtml passed on the component without slotted content, against
\* the empty element.
C14_Witness ==
    /\ outcome.op = "toEqualLightHtml" /\ outcome.pass
    /\ received = ObjectValue(ScopedEmpty)

(***************************************************************************)
(* Claims about the tags the serializer emits, checked under SpecHtml.     *)
(***************************************************************************)
\* The tag names of the received trees, and the sentinel's.
TagNames ==
    { Chars("elem"), Chars("button"), Chars("slot"), Chars("style"), Chars("span"),
      Chars("br"), Chars("img"), Chars("hr"), Chars("div"), Chars("slot-fb"),
      Chars("inner"), Chars("scoped"), Chars("x"), Chars("mock:shadow-root"),
      Chars("b") }

\* The opening tags and the closing tags of a name in the markup.
OpenTagAt(html, i, name) ==
    /\ i + Len(name) + 1 <= Len(html)
    /\ SubSeq(html, i, i + Len(name)) = << "<" >> \o name
    /\ html[i + Len(name) + 1] \in { ">", " " }
CloseTagAt(html, i, name) ==
    /\ i + Len(name) + 2 <= Len(html)
    /\ SubSeq(html, i, i + Len(name) + 2) = << "<", "/" >> \o name \o << ">" >>
CountOpen(html, name) == Cardinality({ i \in 1..Len(html) : OpenTagAt(html, i, name) })
CountClose(html, name) == Cardinality({ i \in 1..Len(html) : CloseTagAt(html, i, name) })

\* The fixed void set the claim names.
VoidNames ==
    { Chars(n) : n \in { "area", "base", "br", "col", "embed", "hr", "img", "input",
                         "link", "meta", "param", "source", "track", "wbr" } }

\* C15: the serializer emits no closing tag for an element whose name is in
\* the void set, with or without child nodes, and exactly one closing tag
\* for each element of any other name (as many closing tags as opening
\* tags of that name).
C15_VoidNeverClosed ==
    Serialized =>
        \A name \in TagNames :
            CountClose(outcome.html, name)
              = IF name \in VoidNames THEN 0 ELSE CountOpen(outcome.html, name)

\* A <br> that reports a text child was serialized: the text follows the
\* opening tag and no closing tag does.
C15_Witness ==
    /\ Serialized /\ outcome.options.pretty = "false"
    /\ received.node[1].localName = Chars("br")
    /\ received.node[1].childNodes # Some(<< >>)
    /\ outcome.html = Chars("<br>x")

\* C16: with excludeStyles true (the default) the output of serializeHtml
\* holds no <style> element, wherever the style element sits in the tree.
C16_NoStyleWhenExcluded ==
    (Serialized /\ Option(outcome.options.excludeStyles, TRUE)) =>
        ~Contains(outcome.html, Chars("<style"))

\* C17: serializeHtml returns a string for every tree, also for one whose
\* nodes lack expected fields, and never throws.
C17_SerializationTotal ==
    (outcome.op = "serializeHtml" /\ received \in TreeValues) =>
        outcome.kind = "returned"

(***************************************************************************)
(* Claims about normalizeHtml, checked under SpecNorm.                     *)
(***************************************************************************)
\* C18: normalizeHtml is idempotent: normalizing a normalized string gives
\* the same string.
C18_NormalizeIdempotent ==
    outcome.op = "normalizeHtml again" => outcome.html = outcome.expected

\* A string that normalizeHtml changed was normalized a second time.
C18_Witness ==
    /\ outcome.op = "normalizeHtml again"
    /\ outcome.html # received.str
    /\ outcome.html # << >>

ClassNames == UNION { [1..n -> { "a", "b" }] : n \in 1..MaxClassLen }
TokenAt(s, i, name) ==
    /\ i + Len(name) - 1 <= Len(s)
    /\ SubSeq(s, i, i + Len(name) - 1) = name
    /\ i = 1 \/ IsSpace(s[i - 1])
    /\ i + Len(name) - 1 = Len(s) \/ IsSpace(s[i + Len(name)])
TokenCount(s, name) ==
    IF name = << >> THEN 0
    ELSE Cardinality({ i \in 1..Len(s) : TokenAt(s, i, name) })
EntryCount(list, name) == Cardinality({ i \in 1..Len(list) : list[i] = name })
ClassAttrOf(value) ==
    LET attributes == value.node[1].attributes[1]
        hits == { i \in 1..Len(attributes) : attributes[i].name = Chars("class") }
    IN  IF hits = {} THEN << >> ELSE attributes[CHOOSE i \in hits : TRUE].value

\* C20 as stated: toMatchClasses passes iff the sorted class tokens of the
\* element equal the sorted expected list exactly, that is iff every name
\* occurs as often among the tokens as in the expected list.
C20_ExactClassList ==
    outcome.op = "toMatchClasses" =>
        outcome.pass = \A name \in ClassNames \cup ExpectedClassNames :
                           TokenCount(ClassAttrOf(received), name)
                             = EntryCount(outcome.expected, name)

\* C20, amended: toMatchClasses passes iff the sorted class tokens of the
\* element equal the sorted expected list without its empty strings; the
\* order of either list does not matter.
C20_ExactClassListNoEmpty ==
    outcome.op = "toMatchClasses" =>
        outcome.pass = \A name \in (ClassNames \cup ExpectedClassNames) \ { << >> } :
                           TokenCount(ClassAttrOf(received), name)
                             = EntryCount(outcome.expected, name)

\* toMatchClasses passed on an element with two classes and the expected
\* list in the other order.
C20_Witness ==
    /\ outcome.op = "toMatchClasses" /\ outcome.pass
    /\ ClassAttrOf(received) = Chars("b a")
    /\ outcome.expected = << Chars("a"), Chars("b") >>

(***************************************************************************)
(* Claims about toEqualAttributes, checked under SpecClasses.              *)
(***************************************************************************)
\* The attributes of the received element as a set of <<name, value>> pairs.
AttributePairs(value) ==
    LET attributes == value.node[1].attributes[1]
    IN  { << attributes[i].name, attributes[i].value >> : i \in 1..Len(attributes) }
HasAttributeNamed(value, name) == \E pair \in AttributePairs(value) : pair[1] = name
ValueOfAttribute(value, name) ==
    (CHOOSE pair \in AttributePairs(value) : pair[1] = name)[2]

\* The report entry C21 describes for one expected entry: none for a key the
\* element has with that value, 'missing' for a key it lacks, the
\* expected/actual pair for a key whose value differs.
ReportFor(value, entry) ==
    IF ~HasAttributeNamed(value, entry[1])
    THEN << Chars("missing \"") \o entry[1] \o Chars("\"") >>
    ELSE IF ValueOfAttribute(value, entry[1]) # entry[2]
    THEN << Chars("\"") \o entry[1] \o Chars("\": expected \"") \o entry[2]
            \o Chars("\", got \"") \o ValueOfAttribute(value, entry[1]) \o Chars("\"") >>
    ELSE << >>
RECURSIVE ReportOf(_, _, _)
ReportOf(value, expected, i) ==
    IF i > Len(expected) THEN << >>
    ELSE ReportFor(value, expected[i]) \o ReportOf(value, expected, i + 1)

\* C21: toEqualAttributes passes iff every expected key is an attribute of
\* the element with exactly the expected value, and its mismatch report
\* names all offending keys and no other: 'missing' for a key the element
\* lacks, the expected and the actual value for a key whose value differs.
C21_AttributesReport ==
    outcome.op = "toEqualAttributes" =>
        /\ outcome.pass = \A i \in 1..Len(outcome.expected) :
                              outcome.expected[i] \in AttributePairs(received)
        /\ outcome.mismatches = ReportOf(received, outcome.expected, 1)

\* toEqualAttributes failed on an element whose type is empty and that has
\* no id: the report holds the pair for type and 'missing' for id.
C21_Witness ==
    /\ outcome.op = "toEqualAttributes" /\ ~outcome.pass
    /\ AttributePairs(received) = { << Chars("type"), << >> >> }
    /\ outcome.expected = << << Chars("type"), Chars("x") >>, << Chars("id"), Chars("y") >> >>
    /\ Len(outcome.mismatches) = 2

(***************************************************************************)
(* Claims about prettifyHtml, checked under SpecHtml on the output of      *)
(* serializeHtml with pretty on.                                           *)
(***************************************************************************)
\* serializeHtml returned pretty-printed markup for an element.
Prettified ==
    /\ Serialized /\ outcome.options.pretty # "false"
    /\ received.node[1].nodeType = 1

\* The lines of a text.
RECURSIVE LinesOf(_)
LinesOf(text) ==
    LET breaks == { i \in 1..Len(text) : text[i] = "\n" }
    IN  IF breaks = {} THEN << text >>
        ELSE LET first == CHOOSE i \in breaks : \A j \in breaks : i <= j
             IN  << SubSeq(text, 1, first - 1) >>
                 \o LinesOf(SubSeq(text, first + 1, Len(text)))

\* The number of spaces a line starts with, and the line without them.
Indentation(line) ==
    Cardinality({ i \in 1..Len(line) : \A j \in 1..i : line[j] = " " })
Body(line) == SubSeq(line, Indentation(line) + 1, Len(line))

\* The tag name that starts at index i of a line.
NameAt(line, i) ==
    LET ends == { j \in i..Len(line) : line[j] \in { " ", ">" } }
    IN  SubSeq(line, i, (CHOOSE j \in ends : \A k \in ends : j <= k) - 1)

\* The index at which a closing tag was appended to a line (0: none), and
\* whether the line is a closing tag, an opening tag, or an opening tag and
\* nothing else.
AppendedAt(line) ==
    LET hits == { i \in 2..(Len(Body(line)) - 1) :
                    Body(line)[i] = "<" /\ Body(line)[i + 1] = "/" }
    IN  IF hits = {} THEN 0 ELSE CHOOSE i \in hits : \A j \in hits : i <= j
IsClosingLine(line) == StartsWith(Body(line), << "<", "/" >>)
IsOpeningLine(line) == StartsWith(Body(line), << "<" >>) /\ ~IsClosingLine(line)
IsOpeningOnly(line) ==
    /\ IsOpeningLine(line)
    /\ Cardinality({ i \in 1..Len(line) : line[i] = "<" }) = 1
    /\ line[Len(line)] = ">"

\* C23: in the output of prettifyHtml a closing tag is appended to the
\* previous line iff that line is solely the opening tag of the same
\* element: a line with an appended closing tag is the opening tag of that
\* name followed by the closing tag, also when the name of another opening
\* tag starts with the same characters, and a closing tag on a line of its
\* own never follows a line that is solely the opening tag of its name.
C23_MergeOnlySameElement ==
    Prettified =>
        LET lines == LinesOf(outcome.html)
        IN  /\ \A k \in 1..Len(lines) :
                 AppendedAt(lines[k]) # 0 =>
                     /\ IsOpeningLine(lines[k])
                     /\ IsOpeningOnly(SubSeq(Body(lines[k]), 1, AppendedAt(lines[k]) - 1))
                     /\ NameAt(Body(lines[k]), 2)
                          = NameAt(Body(lines[k]), AppendedAt(lines[k]) + 2)
            /\ \A k \in 2..Len(lines) :
                 IsClosingLine(lines[k]) =>
                     ~(/\ IsOpeningOnly(lines[k - 1])
                       /\ NameAt(Body(lines[k - 1]), 2) = NameAt(Body(lines[k]), 3))

\* Whether lines k.. are indented by their nesting: open holds the names of
\* the elements open before line k, the outermost first.  A void element,
\* a comment and a self-closing tag open no level.
RECURSIVE IndentedByNesting(_, _, _)
IndentedByNesting(lines, k, open) ==
    IF k > Len(lines) THEN TRUE
    ELSE
    LET line == lines[k]
        body == Body(line)
        name == NameAt(body, 2)
        opens == /\ name \notin VoidNames
                 /\ ~StartsWith(body, Chars("<!--"))
                 /\ ~EndsWith(body, << "/", ">" >>)
    IN  IF IsClosingLine(line)
        THEN /\ Len(open) > 0
             /\ open[Len(open)] = NameAt(body, 3)
             /\ Indentation(line) = indentSize * (Len(open) - 1)
             /\ IndentedByNesting(lines, k + 1, SubSeq(open, 1, Len(open) - 1))
        ELSE /\ Indentation(line) = indentSize * Len(open)
             /\ IndentedByNesting(lines, k + 1,
                    IF IsOpeningLine(line) /\ opens /\ AppendedAt(line) = 0
                    THEN Append(open, name)
                    ELSE IF IsOpeningLine(line) /\ ~opens /\ AppendedAt(line) # 0
                    THEN SubSeq(open, 1, Len(open) - 1)
                    ELSE open)

\* C24: every line of the pretty-printed serialization of an element is
\* indented by 2 spaces per level of nesting: a child 2 spaces more than the
\* opening tag of its parent, a closing tag on its own line as much as its
\* opening tag, and the last closing tag not at all, also after void
\* elements and comments.
C24_IndentedByNesting ==
    Prettified =>
        /\ IndentedByNesting(LinesOf(outcome.html), 1, << >>)
        /\ Indentation(LinesOf(outcome.html)[Len(LinesOf(outcome.html))]) = 0

(***************************************************************************)
(* Claims about stencil-test, checked under SpecCli.                       *)
(***************************************************************************)
\* C22: once stencil-test has exited, the temporary Stencil config it
\* created in watch mode no longer exists, whichever way it exited: after
\* SIGINT or SIGTERM, after Stencil exited or could not be started, after a
\* fatal error of the main routine.
C22_TempConfigRemoved == exit # Undefined => ~tempFileExists

\* C25: a test run starts only because of a build that finished without
\* errors: none starts before the first report of a finished build, and the
\* timer that starts one was never set by a build that had written an
\* error.
C25_RunsOnlyAfterCleanBuild ==
    /\ cliLog.spawned > 0 => buildCount > 0
    /\ ~cliLog.runErrored

\* C27: at most one Vitest child spawned by stencil-test is alive, and the
\* one tracked is alive, under any interleaving of build reports, timer
\* firings and Vitest exits (no signal handled).
C27_OneVitestAlive ==
    /\ cliLog.signals = 0 => Cardinality(vitestAlive) <= 1
    /\ vitestProcess # 0 => vitestProcess \in vitestAlive

\* Two test runs were started, the second after the first had ended, and
\* build reports arrived while a run was under way.
C27_Witness ==
    /\ cliLog.signals = 0 /\ watch
    /\ cliLog.spawned = 2 /\ vitestAlive = { 2 } /\ vitestProcess = 2
    /\ buildCount = 3 /\ cliLog.clean = 3

\* C28: at most one debounce timer is pending, the one set last; reports
\* that arrive while it is pending replace it, so that each burst of
\* reports leads to exactly one test run; and while a Vitest process is
\* tracked or, no signal handled, alive, no timer is pending.
C28_OneRunPerBurst ==
    /\ timers \subseteq { debounceTimer }
    /\ vitestProcess # 0 => timers = {}
    /\ cliLog.signals = 0 =>
           /\ vitestAlive # {} => timers = {}
           /\ exit = Undefined =>
                  cliLog.spawned + Cardinality(timers) = cliLog.bursts

\* Two clean reports arrived in a burst, the second replaced the timer of
\* the first, one test run was started, and a third clean report that
\* arrived during the run set no timer.
C28_Witness ==
    /\ cliLog.signals = 0 /\ exit = Undefined
    /\ cliLog.clean = 3 /\ cliLog.replaced = 1 /\ cliLog.bursts = 1
    /\ cliLog.spawned = 1 /\ vitestProcess = 1 /\ debounceTimer = 2 /\ timers = {}

\* C29: without --watch stencil-test exits with status 0 only if the
\* Stencil build succeeded and the Vitest run exited with code 0: after a
\* failed build, a failing Vitest run, a Vitest process ended by a signal
\* or one that could not be started, the status is not 0.
C29_ZeroOnlyOnSuccess ==
    (~watch /\ exit = Some(0)) =>
        /\ cliLog.vitestEnd \notin { "code1", "signal", "error" }
        /\ cliLog.stencilEnd \notin { "code1", "signal", "error" }

(***************************************************************************)
(* Claims about the test environment, checked under SpecEnv.               *)
(***************************************************************************)
\* The options name a domEnvironment other than the three supported.
Unsupported(options) ==
    /\ options # Undefined
    /\ options[1].domEnvironment # Undefined
    /\ options[1].domEnvironment[1] \notin { "mock-doc", "happy-dom", "jsdom" }

\* C26: setup rejects a domEnvironment other than 'mock-doc', 'happy-dom'
\* and 'jsdom': it throws "Unknown domEnvironment: ..." and sets up no DOM
\* environment.
C26_UnknownEnvironmentRejected ==
    \A i \in 1..Len(setups) :
        Unsupported(setups[i].options) =>
            /\ setups[i].result.threw
            /\ setups[i].result.error = "Unknown domEnvironment"
            /\ setups[i].result.environment = "none"
            /\ i = Len(setups) => globalEnvironment = "none"

(***************************************************************************)
(* Claims about waitForChanges, checked under SpecWait.                    *)
(***************************************************************************)
\* Both frames have fired and every promise collected has settled.
FramesAndSettled ==
    /\ frames = 2 /\ promiseChain # Undefined
    /\ \A i \in 1..Len(promiseChain[1]) : onReady[promiseChain[1][i]] # "pending"

\* C30: the promise of waitForChanges never rejects and is not resolved
\* before both animation frames have fired; once they have and every
\* componentOnReady promise of the nested components has settled, it is
\* eventually resolved, also when one of them was rejected.
C30_ResolvesAfterFrames ==
    /\ [](changes \in { "none", "pending", "resolved" })
    /\ [](changes = "resolved" => frames = 2)
    /\ (FramesAndSettled ~> changes = "resolved")

\* The promise is resolved after the promises of three nested components,
\* one in the shadow root of another, were collected and the innermost was
\* rejected.
C30_Witness ==
    /\ changes = "resolved" /\ frames = 2
    /\ promiseChain = Some(<< Chars("my-button"), Chars("my-icon"), Chars("my-badge") >>)
    /\ onReady[Chars("my-icon")] = "rejected"
    /\ onReady[Chars("my-button")] = "fulfilled"
    /\ onReady[Chars("my-badge")] = "fulfilled"
====
